---- MODULE Spec2Model ----
(***************************************************************************)
(* A model of yPost: the NNTP connection pool (internal/nntp), the         *)
(* parallel upload engine and the orchestrator of the post command         *)
(* (cmd/post.go), and the yEnc codec (internal/yenc).                      *)
(***************************************************************************)
EXTENDS Integers, Sequences, FiniteSets, TLC

\* ------------------------------------------------------------------ bounds
\* Largest source file, in bytes.
MaxFileSize == 3
\* Largest posting.max_part_size.
MaxPartSize == 2
\* Largest posting.max_article_size.
MaxArticleSize == 2
\* Largest servers[i].max_connections.
MaxConnsBound == 2
\* Number of configured servers.
NumServers == 2
\* Clients a pool harness may create in PoolSpec.
MaxClients == 3
MaxTail == 2
\* The clock's readings are 0..MaxClock; PoolSpec posts at most MaxPosts articles.
MaxClock == 1
MaxPosts == 2
\* SplitSpec: file sizes 0..MaxSplitSize, part and article sizes 1..MaxSplitPart.
MaxSplitSize == 11
MaxSplitPart == 5
\* NzbSpec: files of 1..MaxNzbChunks chunks, up to MaxPar2Files PAR2 files.
MaxNzbChunks == 2
MaxPar2Files == 2
\* ArticleSpec: bodies of 0..MaxBody characters.
MaxBody == 4
\* XorSpec: slices of 0..MaxXorLen bytes.
MaxXorLen == 10

VARIABLES
    cfg,          \* the configuration and the source file: constant after Init
    pc,           \* runPost's position
    srv,          \* index of the server of the for loop of runPost (1-based)
    parts,        \* the parts returned by SplitFile
    allSegments,  \* runPost's allSegments
    nzb,          \* the segments written to the NZB; NoNZB until Generate
    pool,         \* the ConnectionPool runPost's pool variable points to
    connected,    \* the clients whose connected field is true
    nclients,     \* Client objects created and connected so far (their ids)
    quitSent,     \* clients that were sent QUIT and closed
    broken,       \* clients on which a command has failed
    poolClosed,   \* CloseAll has been called on pool
    allJobs,      \* uploadParts: the planned jobs
    jobs,         \* uploadParts: the jobs channel
    sent,         \* the sender goroutine: jobs sent so far
    jobsClosed,   \* the jobs channel is closed
    results,      \* uploadParts: the results channel
    errors,       \* uploadParts: the errors channel
    collected,    \* the collector loop's i
    segments,     \* uploadParts: segments
    uploadErrors, \* uploadParts: uploadErrors
    ret,          \* what the last uploadParts returned
    wpc,          \* each worker's position
    wjob,         \* each worker's current job (index into allJobs)
    wclient,      \* the client each worker got from GetClient
    posted,       \* articles the server accepted (240), per chunk number
    ypc,          \* the codec run's position
    yin,          \* the codec run's input: data, partNum, totalParts
    enc,          \* the Encoder's fields crc32 and size
    yout,         \* the string Encode returned
    ydec,         \* what Decode returned: data and err
    now,          \* the last reading of the clock (time.Now())
    minted,       \* the Message-IDs of the articles accepted, in order
    par2Idx,      \* runPost: PAR2 files handled by the loop over par2Files
    par2Segments, \* runPost's par2Segments
    sfvSegments,  \* runPost's sfvSegments
    ppc,          \* the PAR2 run's position
    pin,          \* the PAR2 run's input: the parts' sizes and the redundancy
    pout,         \* what CreatePAR2ForParts computed and returned
    art,          \* one PostArticle call on its own: the body and the lines sent
    xr,           \* one run of xorBytes and xorBytesOptimized on the same memory
    wire,         \* per client, what was written to and read from its connection
    wloc          \* per worker, the locals of its uploadChunk call

vars == <<cfg, pc, srv, parts, allSegments, nzb, pool, connected, nclients,
          quitSent, broken, poolClosed, allJobs, jobs, sent, jobsClosed,
          results, errors, collected, segments, uploadErrors, ret, wpc, wjob,
          wclient, posted, ypc, yin, enc, yout, ydec, now, minted,
          par2Idx, par2Segments, sfvSegments, ppc, pin, pout,
          art, xr, wire, wloc>>

poolVars == <<pool, connected, nclients, quitSent, poolClosed>>
chanVars == <<allJobs, jobs, sent, jobsClosed, results, errors>>
collVars == <<collected, segments, uploadErrors, ret>>
workVars == <<wpc, wjob, wclient>>
mainVars == <<cfg, pc, srv, parts, allSegments, nzb>>
yencVars == <<ypc, yin, enc, yout, ydec>>
postVars == <<now, minted>>
extraVars == <<par2Idx, par2Segments, sfvSegments>>
par2Vars == <<ppc, pin, pout>>
moreVars == <<art, xr, wire, wloc>>

Workers == 1..MaxConnsBound
NoClient == 0
NoNZB == <<"none">>
NoError == [worker |-> 0, chunk |-> 0, kind |-> "none"]
NoRet == [returned |-> FALSE, err |-> FALSE, first |-> NoError, count |-> 0,
          segments |-> <<>>]

Min(a, b) == IF a < b THEN a ELSE b

\* ------------------------------------------------------------- splitter
\* The most bytes one file.Read call transfers, whatever the buffer's length
\* (1 GiB in the Go runtime), in the units of the model's sizes.
maxRW == 4

\* n of n, err := file.Read(data) with remaining bytes left in the file.
FileRead(bufLen, remaining) == Min(bufLen, Min(remaining, maxRW))

\* The bytes of the source file are named by their offsets 1..N.
RECURSIVE SplitLoop(_, _, _, _, _)
SplitLoop(size, maxPartSize, acc, partNumber, bytesRead) ==
    IF bytesRead < size
    THEN LET partSize == Min(maxPartSize, size - bytesRead)
             n == FileRead(partSize, size - bytesRead)
             part == [PartNumber |-> partNumber,
                      Size |-> n,
                      Data |-> [k \in 1..n |-> bytesRead + k]]
         IN SplitLoop(size, maxPartSize, Append(acc, part), partNumber + 1,
                      bytesRead + n)
    ELSE acc

SplitFile(size, maxPartSize) == SplitLoop(size, maxPartSize, <<>>, 1, 0)

\* ------------------------------------------------------ upload planning
RECURSIVE ChunkLoop(_, _, _, _)
ChunkLoop(data, maxChunkSize, acc, i) ==
    IF i < Len(data)
    THEN LET end == Min(i + maxChunkSize, Len(data))
         IN ChunkLoop(data, maxChunkSize,
                      Append(acc, SubSeq(data, i + 1, end)), i + maxChunkSize)
    ELSE acc

\* Chunks of which the last is filled up with zero bytes to maxChunkSize.
splitDataIntoChunksPadded(data, maxChunkSize) ==
    LET chunks == ChunkLoop(data, maxChunkSize, <<>>, 0)
        n == Len(chunks)
    IN [c \in 1..n |->
           IF c = n
           THEN chunks[c] \o [k \in 1..(maxChunkSize - Len(chunks[c])) |-> 0]
           ELSE chunks[c]]

splitDataIntoChunks(data, maxChunkSize) == ChunkLoop(data, maxChunkSize, <<>>, 0)

\* The jobs of one part with the numbering restarted at 1 for each part.
PartJobsRestart(part, chunks, chunkNumber, totalParts) ==
    [c \in 1..Len(chunks) |->
        [chunkData |-> chunks[c],
         part |-> part.PartNumber,
         chunkIndex |-> c - 1,
         chunkNumber |-> c,
         totalParts |-> totalParts]]

\* The jobs of one part, numbered from chunkNumber on.
PartJobs(part, chunks, chunkNumber, totalParts) ==
    [c \in 1..Len(chunks) |->
        [chunkData |-> chunks[c],
         part |-> part.PartNumber,
         chunkIndex |-> c - 1,
         chunkNumber |-> chunkNumber + c - 1,
         totalParts |-> totalParts]]

RECURSIVE PlanLoop(_, _, _, _)
PlanLoop(ps, maxArticleSize, acc, p) ==
    IF p <= Len(ps)
    THEN LET chunks == splitDataIntoChunks(ps[p].Data, maxArticleSize)
         IN PlanLoop(ps, maxArticleSize,
                     acc \o PartJobs(ps[p], chunks, Len(acc) + 1, Len(ps)), p + 1)
    ELSE acc

PlanJobs(ps, maxArticleSize) == PlanLoop(ps, maxArticleSize, <<>>, 1)

\* uploadParts takes the worker count from the first configured server.
NumWorkers(c) == IF Len(c.servers) > 0 THEN c.servers[1] ELSE 4

\* ----------------------------------------------------- connection pool
NewConnectionPool(maxConns) ==
    [clients |-> <<>>, maxConns |-> maxConns, current |-> 0]

\* The first client of the pool whose connected field is true, or NoClient.
FirstConnected(p, conn) ==
    IF \E k \in 1..Len(p.clients) : p.clients[k] \in conn
    THEN p.clients[CHOOSE k \in 1..Len(p.clients) :
                      /\ p.clients[k] \in conn
                      /\ \A j \in 1..(k - 1) : p.clients[j] \notin conn]
    ELSE NoClient

\* A pool that takes one client more than maxConns.
HasRoomOffByOne(p) == Len(p.clients) <= p.maxConns

\* GetClient's test before it creates a client.
HasRoom(p) == Len(p.clients) < p.maxConns

\* GetClient under the pool's mutex. outcome is what Connect and Authenticate
\* meet should a new client be created. The result names the client returned
\* (NoClient with an error) and the pool as GetClient leaves it.
GetClient(p, conn, n, outcome) ==
    LET live == FirstConnected(p, conn)
    IN IF live # NoClient
       THEN [client |-> live, pool |-> p, created |-> FALSE]
       ELSE IF HasRoom(p)
       THEN IF outcome = "ok"
            THEN [client |-> n + 1,
                  pool |-> [p EXCEPT !.clients = Append(@, n + 1)],
                  created |-> TRUE]
            ELSE [client |-> NoClient, pool |-> p, created |-> FALSE]
       ELSE IF Len(p.clients) > 0
       THEN [client |-> p.clients[(p.current % Len(p.clients)) + 1],
             pool |-> [p EXCEPT !.current = @ + 1],
             created |-> FALSE]
       ELSE [client |-> NoClient, pool |-> p, created |-> FALSE]

\* Whether GetClient gets as far as Connect, so that outcome matters.
Connects(p, conn) == FirstConnected(p, conn) = NoClient /\ HasRoom(p)

ClientSet(p) == {p.clients[k] : k \in 1..Len(p.clients)}

\* CloseAll: Quit on every client of the pool, then clients = nil.
CloseAllQuit(p, conn) == ClientSet(p) \cap conn
CloseAllPool(p) == [p EXCEPT !.clients = <<>>]

\* ----------------------------------------------------------- yEnc codec
\* Strings are sequences of byte values.
lineLength == 128
CRLF == <<13, 10>>
\* "=ybegin" and "=yend"
yencHeader == <<61, 121, 98, 101, 103, 105, 110>>
yencTrailer == <<61, 121, 101, 110, 100>>
\* " part=", " total=", " line=", " size=", " name=", " crc32="
StrPart == <<32, 112, 97, 114, 116, 61>>
StrTotal == <<32, 116, 111, 116, 97, 108, 61>>
StrLine == <<32, 108, 105, 110, 101, 61>>
StrSize == <<32, 115, 105, 122, 101, 61>>
StrName == <<32, 110, 97, 109, 101, 61>>
StrCrc32 == <<32, 99, 114, 99, 51, 50, 61>>

\* fmt's %d of a number >= 0.
RECURSIVE Decimal(_)
Decimal(n) ==
    IF n < 10 THEN <<48 + n>> ELSE Append(Decimal(n \div 10), 48 + (n % 10))

\* Bytewise exclusive or.
RECURSIVE XorByte(_, _)
XorByte(a, b) ==
    IF a = 0 THEN b
    ELSE IF b = 0 THEN a
    ELSE ((a + b) % 2) + 2 * XorByte(a \div 2, b \div 2)

\* A uint32 is kept as its four bytes, most significant first.
Xor32(x, y) ==
    <<XorByte(x[1], y[1]), XorByte(x[2], y[2]), XorByte(x[3], y[3]),
      XorByte(x[4], y[4])>>
ShiftRight1(x) ==
    <<x[1] \div 2,
      (x[2] \div 2) + (x[1] % 2) * 128,
      (x[3] \div 2) + (x[2] % 2) * 128,
      (x[4] \div 2) + (x[3] % 2) * 128>>
ShiftRight8(x) == <<0, x[1], x[2], x[3]>>
\* The reflected IEEE polynomial 0xEDB88320.
IEEEPoly == <<237, 184, 131, 32>>

RECURSIVE CrcRounds(_, _)
CrcRounds(x, n) ==
    IF n = 0 THEN x
    ELSE CrcRounds(IF x[4] % 2 = 1 THEN Xor32(ShiftRight1(x), IEEEPoly)
                   ELSE ShiftRight1(x), n - 1)

IEEETable == [n \in 0..255 |-> CrcRounds(<<0, 0, 0, n>>, 8)]

\* One byte folded into the checksum.
CrcByte(crc, b) == Xor32(ShiftRight8(crc), IEEETable[XorByte(crc[4], b)])

\* The bytes data[lo..hi] folded into crc in order. The range is halved, and
\* the left half's checksum is looked at before the right half starts, so
\* that TLC evaluates it there and long inputs do not nest deeply.
RECURSIVE CrcUpdate(_, _, _, _)
CrcUpdate(crc, data, lo, hi) ==
    IF lo > hi THEN crc
    ELSE IF lo = hi THEN CrcByte(crc, data[lo])
    ELSE LET mid == (lo + hi) \div 2
             left == CrcUpdate(crc, data, lo, mid)
         IN IF Len(left) = 4 THEN CrcUpdate(left, data, mid + 1, hi) ELSE left

\* crc32.ChecksumIEEE
ChecksumIEEE(data) ==
    Xor32(CrcUpdate(<<255, 255, 255, 255>>, data, 1, Len(data)),
          <<255, 255, 255, 255>>)

\* hex.EncodeToString of one byte, and strings.ToUpper of a character.
HexDigit(n) == IF n < 10 THEN 48 + n ELSE 97 + (n - 10)
HexByte(b) == <<HexDigit(b \div 16), HexDigit(b % 16)>>
ToUpper(c) == IF c >= 97 /\ c <= 122 THEN c - 32 ELSE c

buildHeader(e, filename, partNum, totalParts) ==
    IF totalParts > 1
    THEN yencHeader \o StrPart \o Decimal(partNum) \o StrTotal
            \o Decimal(totalParts) \o StrLine \o Decimal(lineLength)
            \o StrSize \o Decimal(e.size) \o StrName \o filename
    ELSE yencHeader \o StrLine \o Decimal(lineLength)
            \o StrSize \o Decimal(e.size) \o StrName \o filename

buildTrailer(e) ==
    LET hex == HexByte(e.crc32[1]) \o HexByte(e.crc32[2])
                  \o HexByte(e.crc32[3]) \o HexByte(e.crc32[4])
    IN yencTrailer \o StrSize \o Decimal(e.size) \o StrCrc32
          \o [k \in 1..Len(hex) |-> ToUpper(hex[k])]

\* The bytes that are escaped once 42 has been added: NUL, TAB, LF, CR, '='.
Critical == {0, 9, 10, 13, 61}

\* The body of encodeData's loop: what one input byte appends to result.
EncodeByte(b) ==
    LET encoded == (b + 42) % 256
    IN IF encoded \in Critical
       THEN <<61, (encoded + 64) % 256>>
       ELSE <<encoded>>

\* encodeData's loop over data[lo..hi], the range halved as in CrcUpdate.
RECURSIVE EncodeLoop(_, _, _)
EncodeLoop(data, lo, hi) ==
    IF lo > hi THEN <<>>
    ELSE IF lo = hi THEN EncodeByte(data[lo])
    ELSE LET mid == (lo + hi) \div 2
         IN EncodeLoop(data, lo, mid) \o EncodeLoop(data, mid + 1, hi)

encodeData(data) == EncodeLoop(data, 1, Len(data))

RECURSIVE LinesLoop(_, _, _)
LinesLoop(data, i, lines) ==
    IF i < Len(data)
    THEN LinesLoop(data, i + lineLength,
                   Append(lines, SubSeq(data, i + 1, Min(i + lineLength, Len(data)))))
    ELSE lines

splitIntoLines(data) == LinesLoop(data, 0, <<>>)

RECURSIVE JoinLines(_, _)
JoinLines(lines, k) ==
    IF k > Len(lines) THEN <<>> ELSE lines[k] \o CRLF \o JoinLines(lines, k + 1)

\* The Encoder's fields as Encode sets them.
EncoderState(data) == [crc32 |-> ChecksumIEEE(data), size |-> Len(data)]

\* Encode, all of it run by one goroutine.
Encode(data, filename, partNum, totalParts) ==
    LET e == EncoderState(data)
    IN buildHeader(e, filename, partNum, totalParts) \o CRLF
          \o JoinLines(splitIntoLines(encodeData(data)), 1)
          \o buildTrailer(e) \o CRLF

\* strings.Split(s, "\r\n"): the pieces between the occurrences of CR LF,
\* which cannot overlap.
SplitCRLF(s) ==
    LET seps == {i \in 1..(Len(s) - 1) : s[i] = 13 /\ s[i + 1] = 10}
        n == Cardinality(seps)
        pos(k) == IF k = 0 THEN -1
                  ELSE IF k = n + 1 THEN Len(s) + 1
                  ELSE CHOOSE i \in seps : Cardinality({j \in seps : j < i}) = k - 1
    IN [k \in 1..(n + 1) |-> SubSeq(s, pos(k - 1) + 2, pos(k) - 1)]

HasPrefix(s, prefix) ==
    Len(s) >= Len(prefix) /\ SubSeq(s, 1, Len(prefix)) = prefix

\* Decode's first loop: the 0-based start and end of the content lines.
RECURSIVE FindBounds(_, _, _, _)
FindBounds(lines, i, start, end) ==
    IF i >= Len(lines) THEN [start |-> start, end |-> end]
    ELSE LET st == IF HasPrefix(lines[i + 1], yencHeader) THEN i + 1 ELSE start
         IN IF HasPrefix(lines[i + 1], yencTrailer)
            THEN [start |-> st, end |-> i]
            ELSE FindBounds(lines, i + 1, st, end)

\* One pass of decodeLine's loop from the state st = [i, result, err]; a
\* state in which the loop is over is left as it is.
DecodeStep(line, st) ==
    IF st.err \/ st.i >= Len(line) THEN st
    ELSE IF line[st.i + 1] = 61
    THEN IF st.i + 1 >= Len(line)
         THEN [i |-> st.i, result |-> <<>>, err |-> TRUE]
         ELSE [i |-> st.i + 2,
               result |-> Append(st.result,
                   (((line[st.i + 2] + 256 - 64) % 256) + 256 - 42) % 256),
               err |-> FALSE]
    ELSE [i |-> st.i + 1,
          result |-> Append(st.result, (line[st.i + 1] + 256 - 42) % 256),
          err |-> FALSE]

\* n passes of the loop, halved as in CrcUpdate.
RECURSIVE DecodeLineLoop(_, _, _)
DecodeLineLoop(line, st, n) ==
    IF n = 0 \/ st.err THEN st
    ELSE IF n = 1 THEN DecodeStep(line, st)
    ELSE DecodeLineLoop(line, DecodeLineLoop(line, st, n \div 2), n - (n \div 2))

\* decodeLine: the loop ends within len(line) passes.
decodeLine(line) ==
    LET st == DecodeLineLoop(line, [i |-> 0, result |-> <<>>, err |-> FALSE],
                             Len(line))
    IN [data |-> st.result, err |-> st.err]

RECURSIVE DecodeLines(_, _, _, _)
DecodeLines(lines, i, end, data) ==
    IF i >= end THEN [data |-> data, err |-> FALSE]
    ELSE LET d == decodeLine(lines[i + 1])
         IN IF d.err THEN [data |-> <<>>, err |-> TRUE]
            ELSE DecodeLines(lines, i + 1, end, data \o d.data)

Decode(encoded) ==
    LET lines == SplitCRLF(encoded)
        b == FindBounds(lines, 0, 0, Len(lines))
    IN DecodeLines(lines, b.start, b.end, <<>>)

NoEncoder == [crc32 |-> <<0, 0, 0, 0>>, size |-> 0]
NoDecode == [data |-> <<>>, err |-> FALSE]

\* No codec run: the state of the codec's variables outside YencSpec.
YencIdle ==
    /\ ypc = "off"
    /\ yin = [data |-> <<>>, partNum |-> 1, totalParts |-> 1]
    /\ enc = NoEncoder
    /\ yout = <<>>
    /\ ydec = NoDecode

\* ------------------------------------------------------- PostArticle
\* Characters are byte values: '.', '%', '!', '(' and ')'.
Dot == 46
Percent == 37
\* "(MISSING)" and "%!(NOVERB)"
missingString == <<40, 77, 73, 83, 83, 73, 78, 71, 41>>
noVerbString == <<37, 33, 40, 78, 79, 86, 69, 82, 66, 41>>

RECURSIVE SplitLF(_)
\* strings.Split(s, "\n")
SplitLF(s) ==
    IF \E k \in 1..Len(s) : s[k] = 10
    THEN LET k == CHOOSE j \in 1..Len(s) :
                      s[j] = 10 /\ \A i \in 1..(j - 1) : s[i] # 10
         IN <<SubSeq(s, 1, k - 1)>> \o SplitLF(SubSeq(s, k + 1, Len(s)))
    ELSE <<s>>

RECURSIVE Sprintf(_)
\* fmt.Sprintf(format) with no operands, for formats without flags, widths
\* and digits: text is copied; after '%' and an optional '.', the end of
\* the format gives "%!(NOVERB)", '%' gives '%', and any other verb gives
\* "%!", the verb and "(MISSING)".
Sprintf(format) ==
    IF format = <<>> THEN <<>>
    ELSE IF Head(format) # Percent THEN <<Head(format)>> \o Sprintf(Tail(format))
    ELSE LET afterPercent == Tail(format)
             rest == IF afterPercent # <<>> /\ Head(afterPercent) = Dot
                     THEN Tail(afterPercent) ELSE afterPercent
         IN IF rest = <<>> THEN noVerbString
            ELSE IF Head(rest) = Percent THEN <<Percent>> \o Sprintf(Tail(rest))
            ELSE <<Percent, 33, Head(rest)>> \o missingString \o Sprintf(Tail(rest))

\* textproto.Writer.PrintfLine(format): the formatted text and CRLF.
PrintfLine(format) == Sprintf(format) \o CRLF

\* A body line sent as it is.
DotStuffNone(line) == line

\* The dot-stuffing of PostArticle's loop over the body lines.
DotStuff(line) == IF HasPrefix(line, <<Dot>>) THEN <<Dot>> \o line ELSE line

RECURSIVE SendBodyLines(_, _)
SendBodyLines(bodyLines, k) ==
    IF k > Len(bodyLines) THEN <<>>
    ELSE PrintfLine(DotStuff(bodyLines[k])) \o SendBodyLines(bodyLines, k + 1)

\* What PostArticle writes once the headers are out: the empty line, the
\* body lines and the termination line.
SendBody(body) ==
    PrintfLine(<<>>) \o SendBodyLines(SplitLF(body), 1) \o PrintfLine(<<Dot>>)

\* The names of the headers PostArticle sends, in no fixed order.
HeaderNames == {"From", "Subject", "Newsgroups", "Message-ID", "Date", "Content-Type"}

\* Everything PostArticle writes for a body, given whether the server
\* answers POST with 340.
PostArticleWrites(body, accepted) ==
    IF accepted
    THEN [command |-> "POST", headers |-> HeaderNames, rest |-> SendBody(body)]
    ELSE [command |-> "POST", headers |-> {}, rest |-> <<>>]

\* ---------------------------------------------------------- XOR loops
\* Memory is a sequence of bytes; a slice is <<offset, length>> into it, so
\* that two slices may share bytes as two Go slices of one array do.
RECURSIVE XorLoop(_, _, _, _, _)
\* for ; i < minLen; i++ { dst[i] ^= src[i] }
XorLoop(mem, dst, src, i, minLen) ==
    IF i < minLen
    THEN XorLoop([mem EXCEPT ![dst[1] + i + 1] = XorByte(@, mem[src[1] + i + 1])],
                 dst, src, i + 1, minLen)
    ELSE mem

xorBytes(mem, dst, src) == XorLoop(mem, dst, src, 0, Min(dst[2], src[2]))

\* *(*uint64)(unsafe.Pointer(&b[i])): the eight bytes from address at on.
Load64(mem, at) == [b \in 1..8 |-> mem[at + b]]

\* The XOR of two 64-bit words given by their bytes.
Xor64(x, y) == [b \in 1..8 |-> XorByte(x[b], y[b])]

Store64(mem, at, word) ==
    [k \in 1..Len(mem) |-> IF k > at /\ k <= at + 8 THEN word[k - at] ELSE mem[k]]

RECURSIVE WordLoop(_, _, _, _, _)
\* for i+8 <= minLen { *dstPtr ^= *srcPtr; i += 8 }; the result is the
\* memory and i.
WordLoop(mem, dst, src, i, minLen) ==
    IF i + 8 <= minLen
    THEN WordLoop(Store64(mem, dst[1] + i,
                          Xor64(Load64(mem, dst[1] + i), Load64(mem, src[1] + i))),
                  dst, src, i + 8, minLen)
    ELSE [mem |-> mem, i |-> i]

\* The word loop without the loop over the remaining bytes.
xorBytesWordsOnly(mem, dst, src) ==
    WordLoop(mem, dst, src, 0, Min(dst[2], src[2])).mem

xorBytesOptimized(mem, dst, src) ==
    LET minLen == Min(dst[2], src[2])
        words == WordLoop(mem, dst, src, 0, minLen)
    IN XorLoop(words.mem, dst, src, words.i, minLen)

\* ------------------------------------------------------ PAR2 generator
KiB == 1024
MiB == KiB * KiB
GiB == KiB * MiB

\* The first threshold taken inclusively.
calculateSliceSizeInclusive(fileSize) ==
    IF fileSize <= MiB THEN 4 * KiB
    ELSE IF fileSize < 100 * MiB THEN 64 * KiB
    ELSE IF fileSize < GiB THEN 256 * KiB
    ELSE 512 * KiB

calculateSliceSize(fileSize) ==
    IF fileSize < MiB THEN 4 * KiB
    ELSE IF fileSize < 100 * MiB THEN 64 * KiB
    ELSE IF fileSize < GiB THEN 256 * KiB
    ELSE 512 * KiB

RECURSIVE SumSizes(_, _)
\* The sizes of the first k parts added up.
SumSizes(sizes, k) == IF k = 0 THEN 0 ELSE SumSizes(sizes, k - 1) + sizes[k]

\* int(x / y) of the quotient of two integers: the fraction is cut off.
\* The products the model forms are whole numbers that float64 holds exactly.
TruncDiv(x, y) == IF x >= 0 THEN x \div y ELSE -((-x) \div y)

\* The shards the read loop fills from part j, the first of them at index
\* shardIndex (0-based): one for each sliceSize bytes of the part, the last
\* zero-padded, and none from index numSlices on. A shard is given by the
\* file bytes it holds, counted over all parts in order, and its padding.
PartShards(sizes, j, sliceSize, shardIndex, numSlices) ==
    LET before == SumSizes(sizes, j - 1)
        reads == (sizes[j] + sliceSize - 1) \div sliceSize
        room == IF numSlices > shardIndex THEN numSlices - shardIndex ELSE 0
    IN [q \in 1..Min(reads, room) |->
           LET n == Min(sliceSize, sizes[j] - (q - 1) * sliceSize)
           IN [lo |-> before + (q - 1) * sliceSize + 1,
               hi |-> before + (q - 1) * sliceSize + n,
               pad |-> sliceSize - n]]

RECURSIVE ReadShards(_, _, _, _, _)
\* The loop over parts of generateRecoveryDataReedSolomonFromParts.
ReadShards(sizes, j, sliceSize, numSlices, shards) ==
    IF j > Len(sizes) THEN shards
    ELSE ReadShards(sizes, j + 1, sliceSize, numSlices,
                    shards \o PartShards(sizes, j, sliceSize, Len(shards), numSlices))

\* generateRecoveryDataReedSolomonFromParts: the shard counts, the data
\* shards, and the parity shards the encoder fills, each sliceSize bytes.
generateRecoveryDataReedSolomonFromParts(sizes, sliceSize, redundancy) ==
    LET totalSize == SumSizes(sizes, Len(sizes))
        numSlices == (totalSize + sliceSize - 1) \div sliceSize
        byRedundancy == TruncDiv(numSlices * redundancy, 100)
        parityShards == IF byRedundancy < 1 THEN 1 ELSE byRedundancy
    IN [numSlices |-> numSlices,
        parityShards |-> parityShards,
        shards |-> ReadShards(sizes, 1, sliceSize, numSlices, <<>>),
        recoveryData |-> [i \in 1..parityShards |->
                             [parity |-> i, size |-> sliceSize]]]

\* len(recoveryData) in bytes: every parity shard was made sliceSize long.
RecoveryLen(recoveryData) ==
    IF Len(recoveryData) = 0 THEN 0
    ELSE Len(recoveryData) * recoveryData[1].size

\* The pattern 2^0, 2^0, 2^1, 2^2, ... with no truncation.
blocksInVolumeDoubling(volIndex, blockIndex, totalRecoveryBlocks) ==
    LET pattern == 2 ^ volIndex
    IN IF blockIndex + pattern > totalRecoveryBlocks
       THEN totalRecoveryBlocks - blockIndex
       ELSE pattern

\* blocksInVolume of createStandardVOLFiles: 1 for the first volume, then
\* 2^(volIndex-1), cut to the blocks that remain.
blocksInVolume(volIndex, blockIndex, totalRecoveryBlocks) ==
    LET pattern == IF volIndex = 0 THEN 1 ELSE 2 ^ (volIndex - 1)
    IN IF blockIndex + pattern > totalRecoveryBlocks
       THEN totalRecoveryBlocks - blockIndex
       ELSE pattern

RECURSIVE VolLoop(_, _, _, _, _)
\* The loop of createStandardVOLFiles.
VolLoop(recoveryData, totalRecoveryBlocks, blockIndex, volIndex, volFiles) ==
    IF blockIndex < totalRecoveryBlocks
    THEN LET inVolume == blocksInVolume(volIndex, blockIndex, totalRecoveryBlocks)
             volFile == [kind |-> "volume",
                         sss |-> blockIndex,
                         count |-> inVolume,
                         payload |-> SubSeq(recoveryData, blockIndex + 1,
                                            blockIndex + inVolume)]
         IN VolLoop(recoveryData, totalRecoveryBlocks, blockIndex + inVolume,
                    volIndex + 1, Append(volFiles, volFile))
    ELSE volFiles

createStandardVOLFiles(recoveryData, sliceSize) ==
    LET totalRecoveryBlocks == RecoveryLen(recoveryData) \div sliceSize
    IN IF totalRecoveryBlocks = 0 THEN <<>>
       ELSE VolLoop(recoveryData, totalRecoveryBlocks, 0, 0, <<>>)

\* CreatePAR2ForParts for parts of the given sizes: what it computed and the
\* files it returns, the index file first.
CreatePAR2ForParts(sizes, redundancy) ==
    LET sliceSize == calculateSliceSize(SumSizes(sizes, Len(sizes)))
        rs == generateRecoveryDataReedSolomonFromParts(sizes, sliceSize, redundancy)
    IN [err |-> FALSE,
        sliceSize |-> sliceSize,
        numSlices |-> rs.numSlices,
        parityShards |-> rs.parityShards,
        shards |-> rs.shards,
        recoveryData |-> rs.recoveryData,
        par2Files |-> <<[kind |-> "index", sss |-> 0, count |-> 0, payload |-> <<>>]>>
                         \o createStandardVOLFiles(rs.recoveryData, sliceSize)]

NoPar2 == [err |-> TRUE, sliceSize |-> 0, numSlices |-> 0, parityShards |-> 0,
           shards |-> <<>>, recoveryData |-> <<>>, par2Files |-> <<>>]

\* No PAR2 run: the state of its variables outside Par2Spec.
Par2Idle ==
    /\ ppc = "off"
    /\ pin = [sizes |-> <<>>, redundancy |-> 0]
    /\ pout = NoPar2

\* No stand-alone PostArticle or XOR run, and no connection traffic recorded.
NoArticle == [pc |-> "off", body |-> <<>>, sent |-> <<>>]
NoXor == [pc |-> "off", mem |-> <<>>, dst |-> <<0, 0>>, src |-> <<0, 0>>,
          plain |-> <<>>, optimized |-> <<>>]
MoreIdle ==
    /\ art = NoArticle
    /\ xr = NoXor
    /\ wire = <<>>
    /\ wloc = <<>>

\* ------------------------------------------------------------ CloseAll
\* What CloseAll does to the pool and its clients; the rest is unchanged.
CloseAll ==
    /\ quitSent' = quitSent \cup CloseAllQuit(pool, connected)
    /\ connected' = connected \ ClientSet(pool)
    /\ pool' = CloseAllPool(pool)
    /\ poolClosed' = TRUE

\* ------------------------------------------------------------- runPost
Configs ==
    [servers : [1..NumServers -> 0..MaxConnsBound],
     fileSize : 0..MaxFileSize,
     maxPartSize : 1..MaxPartSize,
     maxArticleSize : 1..MaxArticleSize]

Init ==
    /\ cfg \in Configs
    /\ pc = "split"
    /\ YencIdle
    /\ srv = 1
    /\ parts = <<>>
    /\ allSegments = <<>>
    /\ nzb = NoNZB
    /\ pool = NewConnectionPool(0)
    /\ connected = {}
    /\ nclients = 0
    /\ quitSent = {}
    /\ broken = {}
    /\ poolClosed = FALSE
    /\ allJobs = <<>>
    /\ jobs = <<>>
    /\ sent = 0
    /\ jobsClosed = FALSE
    /\ results = <<>>
    /\ errors = <<>>
    /\ collected = 0
    /\ segments = <<>>
    /\ uploadErrors = <<>>
    /\ ret = NoRet
    /\ wpc = [w \in Workers |-> "none"]
    /\ wjob = [w \in Workers |-> 0]
    /\ wclient = [w \in Workers |-> NoClient]
    /\ posted = <<>>
    /\ now = 0
    /\ minted = <<>>
    /\ par2Idx = 0
    /\ par2Segments = <<>>
    /\ sfvSegments = <<>>
    /\ Par2Idle
    /\ MoreIdle

Split ==
    /\ pc = "split"
    /\ UNCHANGED <<yencVars, extraVars, par2Vars, moreVars>>
    /\ UNCHANGED postVars
    /\ parts' = SplitFile(cfg.fileSize, cfg.maxPartSize)
    /\ pc' = "servers"
    /\ UNCHANGED <<cfg, srv, allSegments, nzb, broken, posted>>
    /\ UNCHANGED <<poolVars, chanVars, collVars, workVars>>

\* The body of the server loop up to the point where uploadParts has planned
\* its jobs, made its channels and started its workers and its sender.
BeginUpload ==
    /\ pc = "servers"
    /\ Len(parts) > 0
    /\ UNCHANGED <<yencVars, extraVars, par2Vars, moreVars>>
    /\ UNCHANGED postVars
    /\ srv <= Len(cfg.servers)
    /\ pool' = NewConnectionPool(cfg.servers[srv])
    /\ poolClosed' = FALSE
    /\ allJobs' = PlanJobs(parts, cfg.maxArticleSize)
    /\ jobs' = <<>>
    /\ sent' = 0
    /\ jobsClosed' = FALSE
    /\ results' = <<>>
    /\ errors' = <<>>
    /\ collected' = 0
    /\ segments' = <<>>
    /\ uploadErrors' = <<>>
    /\ ret' = NoRet
    /\ wpc' = [w \in Workers |-> IF w <= NumWorkers(cfg) THEN "idle" ELSE "none"]
    /\ wjob' = [w \in Workers |-> 0]
    /\ wclient' = [w \in Workers |-> NoClient]
    /\ posted' = [c \in 1..Len(allJobs') |-> 0]
    /\ pc' = "upload"
    /\ UNCHANGED <<cfg, srv, parts, allSegments, nzb, connected, nclients,
                   quitSent, broken>>

\* The body of the server loop when the split gave no part: the pool is
\* made, and uploadParts evaluates parts[0].FileName for its tracker, an
\* index out of range on the empty slice, so the process panics.
BeginUploadPanics ==
    /\ pc = "servers"
    /\ srv <= Len(cfg.servers)
    /\ Len(parts) = 0
    /\ pool' = NewConnectionPool(cfg.servers[srv])
    /\ poolClosed' = FALSE
    /\ pc' = "panic"
    /\ UNCHANGED <<cfg, srv, parts, allSegments, nzb, connected, nclients,
                   quitSent, broken, posted>>
    /\ UNCHANGED <<chanVars, collVars, workVars, yencVars, postVars, extraVars, par2Vars, moreVars>>

\* The sender goroutine: jobs <- job. The channel holds len(allJobs) jobs, so
\* a send never blocks.
SendJob ==
    /\ pc = "upload"
    /\ UNCHANGED <<yencVars, extraVars, par2Vars, moreVars>>
    /\ UNCHANGED postVars
    /\ ~jobsClosed
    /\ sent < Len(allJobs)
    /\ jobs' = Append(jobs, sent + 1)
    /\ sent' = sent + 1
    /\ UNCHANGED <<allJobs, jobsClosed, results, errors, broken, posted>>
    /\ UNCHANGED <<mainVars, poolVars, collVars, workVars>>

\* The sender goroutine: the deferred close(jobs).
CloseJobs ==
    /\ pc = "upload"
    /\ UNCHANGED <<yencVars, extraVars, par2Vars, moreVars>>
    /\ UNCHANGED postVars
    /\ ~jobsClosed
    /\ sent = Len(allJobs)
    /\ jobsClosed' = TRUE
    /\ UNCHANGED <<allJobs, jobs, sent, results, errors, broken, posted>>
    /\ UNCHANGED <<mainVars, poolVars, collVars, workVars>>

\* A worker: for job := range jobs, a job received.
TakeJob(w) ==
    /\ pc = "upload"
    /\ UNCHANGED <<yencVars, extraVars, par2Vars, moreVars>>
    /\ UNCHANGED postVars
    /\ wpc[w] = "idle"
    /\ jobs # <<>>
    /\ wjob' = [wjob EXCEPT ![w] = Head(jobs)]
    /\ jobs' = Tail(jobs)
    /\ wpc' = [wpc EXCEPT ![w] = "get"]
    /\ UNCHANGED <<allJobs, sent, jobsClosed, results, errors, wclient, broken,
                   posted>>
    /\ UNCHANGED <<mainVars, poolVars, collVars>>

\* A worker: the range loop ends on the closed and drained channel.
WorkerDone(w) ==
    /\ pc = "upload"
    /\ UNCHANGED <<yencVars, extraVars, par2Vars, moreVars>>
    /\ UNCHANGED postVars
    /\ wpc[w] = "idle"
    /\ jobs = <<>>
    /\ jobsClosed
    /\ wpc' = [wpc EXCEPT ![w] = "done"]
    /\ UNCHANGED <<wjob, wclient, broken, posted>>
    /\ UNCHANGED <<mainVars, poolVars, chanVars, collVars>>

\* A worker whose uploadChunk returned an error: errors <- err; return.
WorkerFails(w, kind) ==
    /\ errors' = Append(errors, [worker |-> w,
                                 chunk |-> allJobs[wjob[w]].chunkNumber,
                                 kind |-> kind])
    /\ wpc' = [wpc EXCEPT ![w] = "done"]

ConnectOutcomes == {"ok", "connectFailed", "authFailed"}

\* uploadChunk: client, err := pool.GetClient().
WorkerGetClient(w) ==
    /\ pc = "upload"
    /\ UNCHANGED <<yencVars, extraVars, par2Vars, moreVars>>
    /\ UNCHANGED postVars
    /\ wpc[w] = "get"
    /\ \E outcome \in IF Connects(pool, connected) THEN ConnectOutcomes ELSE {"ok"} :
          LET r == GetClient(pool, connected, nclients, outcome)
          IN /\ pool' = r.pool
             /\ connected' = IF r.created THEN connected \cup {r.client} ELSE connected
             /\ nclients' = IF r.created THEN nclients + 1 ELSE nclients
             /\ IF r.client # NoClient
                THEN /\ wclient' = [wclient EXCEPT ![w] = r.client]
                     /\ wpc' = [wpc EXCEPT ![w] = "join"]
                     /\ UNCHANGED errors
                ELSE /\ WorkerFails(w, "getclient")
                     /\ UNCHANGED wclient
    /\ UNCHANGED <<quitSent, poolClosed, allJobs, jobs, sent, jobsClosed,
                   results, wjob, broken, posted>>
    /\ UNCHANGED <<mainVars, collVars>>

JoinOutcomes == {"ok", "unexpected"}

\* uploadChunk: client.JoinGroup(group). GROUP is sent in every job.
WorkerJoinGroup(w) ==
    /\ pc = "upload"
    /\ UNCHANGED <<yencVars, extraVars, par2Vars, moreVars>>
    /\ UNCHANGED postVars
    /\ wpc[w] = "join"
    /\ \E outcome \in JoinOutcomes :
          IF outcome = "ok" /\ wclient[w] \in connected
          THEN /\ wpc' = [wpc EXCEPT ![w] = "post"]
               /\ UNCHANGED <<errors, broken>>
          ELSE /\ WorkerFails(w, "join")
               /\ broken' = broken \cup {wclient[w]}
    /\ UNCHANGED <<allJobs, jobs, sent, jobsClosed, results, wjob, wclient,
                   posted>>
    /\ UNCHANGED <<mainVars, poolVars, collVars>>

PostOutcomes == {"ok", "io", "after340"}

\* The clock counts ticks; time.Now().Unix() is the reading in whole seconds.
TicksPerSecond == 2

\* time.Now() after the reading t: the clock does not run backwards, and two
\* readings may be equal.
Readings(t) == t..MaxClock

\* c.config.Host of the i-th configured server.
Host(i) == "news" \o ToString(i)

\* fmt.Sprintf("<%d.%d@%s>", nano, unix, host), piece by piece.
MessageID(nano, unix, host) ==
    <<"<", ToString(nano), ".", ToString(unix), "@", host, ">">>

\* PostArticle's Message-ID from its two readings of the clock.
MintID(t1, t2, host) == MessageID(t1, t2 \div TicksPerSecond, host)

\* uploadChunk's templateData, from which the subject template is rendered;
\* the file name and the size text are left out.
templateData(job, totalChunks) ==
    [Index |-> job.part,
     Total |-> job.totalParts,
     ChunkIndex |-> job.chunkNumber,
     TotalChunks |-> totalChunks]

\* A segment that records the length of the encoded article.
SegmentEncodedLength(job, totalChunks, messageID) ==
    [MessageID |-> messageID,
     Subject |-> templateData(job, totalChunks),
     PartNumber |-> job.chunkNumber,
     TotalParts |-> totalChunks,
     Part |-> job.part,
     BytesPosted |-> Len(Encode(job.chunkData, <<102, 46, 98>>, job.part, job.totalParts))]

Segment(job, totalChunks, messageID) ==
    [MessageID |-> messageID,
     Subject |-> templateData(job, totalChunks),
     PartNumber |-> job.chunkNumber,
     TotalParts |-> totalChunks,
     Part |-> job.part,
     BytesPosted |-> Len(job.chunkData)]

\* uploadChunk from the encoding on: PostArticle, the segment, and the
\* worker's results <- segment. PostArticle reads the clock once the server
\* has answered 340.
WorkerPost(w) ==
    /\ pc = "upload"
    /\ UNCHANGED <<yencVars, extraVars, par2Vars, moreVars>>
    /\ wpc[w] = "post"
    /\ \E outcome \in PostOutcomes :
       \E t1 \in Readings(now) : \E t2 \in Readings(t1) :
          IF outcome = "ok" /\ wclient[w] \in connected
          THEN /\ results' = Append(results,
                                    Segment(allJobs[wjob[w]], Len(allJobs),
                                            MintID(t1, t2, Host(srv))))
               /\ posted' = [posted EXCEPT ![allJobs[wjob[w]].chunkNumber] = @ + 1]
               /\ minted' = Append(minted, MintID(t1, t2, Host(srv)))
               /\ now' = t2
               /\ wpc' = [wpc EXCEPT ![w] = "idle"]
               /\ UNCHANGED <<errors, broken>>
          ELSE /\ WorkerFails(w, "post")
               /\ broken' = broken \cup {wclient[w]}
               /\ now' = IF outcome = "after340" /\ wclient[w] \in connected
                         THEN t2 ELSE now
               /\ UNCHANGED <<results, posted, minted>>
    /\ UNCHANGED <<allJobs, jobs, sent, jobsClosed, wjob, wclient>>
    /\ UNCHANGED <<mainVars, poolVars, collVars>>

\* The collector loop: one receive of the select, for i < len(allJobs).
Collect ==
    /\ pc = "upload"
    /\ UNCHANGED <<yencVars, extraVars, par2Vars, moreVars>>
    /\ UNCHANGED postVars
    /\ collected < Len(allJobs)
    /\ \/ /\ results # <<>>
          /\ segments' = Append(segments, Head(results))
          /\ results' = Tail(results)
          /\ UNCHANGED <<errors, uploadErrors>>
       \/ /\ errors # <<>>
          /\ uploadErrors' = Append(uploadErrors, Head(errors))
          /\ errors' = Tail(errors)
          /\ UNCHANGED <<results, segments>>
    /\ collected' = collected + 1
    /\ UNCHANGED <<allJobs, jobs, sent, jobsClosed, ret, broken, posted>>
    /\ UNCHANGED <<mainVars, poolVars, workVars>>

AllWorkersDone == \A w \in Workers : wpc[w] \in {"none", "done"}

\* An uploadParts that returns the segments it has, whatever failed.
UploadResultPartial(errs, segs) ==
    [returned |-> TRUE, err |-> FALSE, first |-> NoError, count |-> 0,
     segments |-> segs]

\* The result of uploadParts once the loop and wg.Wait() are over.
UploadResult(errs, segs) ==
    IF Len(errs) > 0
    THEN [returned |-> TRUE, err |-> TRUE, first |-> errs[1],
          count |-> Len(errs), segments |-> <<>>]
    ELSE [returned |-> TRUE, err |-> FALSE, first |-> NoError, count |-> 0,
          segments |-> segs]

\* uploadParts after the collector loop: wg.Wait() and the return.
UploadReturn ==
    /\ pc = "upload"
    /\ UNCHANGED <<yencVars, extraVars, par2Vars, moreVars>>
    /\ UNCHANGED postVars
    /\ collected = Len(allJobs)
    /\ AllWorkersDone
    /\ ret' = UploadResult(uploadErrors, segments)
    /\ pc' = "returned"
    /\ UNCHANGED <<cfg, srv, parts, allSegments, nzb, broken, posted>>
    /\ UNCHANGED <<poolVars, chanVars, collected, segments, uploadErrors, workVars>>

\* runPost after uploadParts: on an error CloseAll and the next server,
\* otherwise the segments are kept and the loop is left.
AfterUpload ==
    /\ pc = "returned"
    /\ UNCHANGED <<yencVars, extraVars, par2Vars, moreVars>>
    /\ UNCHANGED postVars
    /\ IF ret.err
       THEN /\ CloseAll
            /\ srv' = srv + 1
            /\ pc' = "servers"
            /\ UNCHANGED allSegments
       ELSE /\ allSegments' = allSegments \o ret.segments
            /\ pc' = "uploaded"
            /\ UNCHANGED <<srv, pool, connected, quitSent, poolClosed>>
    /\ UNCHANGED <<cfg, parts, nzb, nclients, broken, posted>>
    /\ UNCHANGED <<chanVars, collVars, workVars>>

\* runPost after the loop with no server left and no segment: CloseAll and
\* log.Fatal, which exits the process.
AllServersFailed ==
    /\ pc = "servers"
    /\ UNCHANGED <<yencVars, extraVars, par2Vars, moreVars>>
    /\ UNCHANGED postVars
    /\ srv > Len(cfg.servers)
    /\ Len(allSegments) = 0
    /\ CloseAll
    /\ pc' = "fatal"
    /\ UNCHANGED <<cfg, srv, parts, allSegments, nzb, nclients, broken, posted>>
    /\ UNCHANGED <<chanVars, collVars, workVars>>

\* runPost: the pool is closed when the uploads are done.
ClosePool ==
    /\ pc = "uploaded"
    /\ UNCHANGED <<yencVars, extraVars, par2Vars, moreVars>>
    /\ UNCHANGED postVars
    /\ CloseAll
    /\ pc' = "closed"
    /\ UNCHANGED <<cfg, srv, parts, allSegments, nzb, nclients, broken, posted>>
    /\ UNCHANGED <<chanVars, collVars, workVars>>

\* strings.Trim(s, cutset): the leading and the trailing pieces of s that are
\* in cutset removed.
RECURSIVE TrimLeft(_, _)
TrimLeft(s, cutset) ==
    IF s # <<>> /\ Head(s) \in cutset THEN TrimLeft(Tail(s), cutset) ELSE s

RECURSIVE TrimRight(_, _)
TrimRight(s, cutset) ==
    IF s # <<>> /\ s[Len(s)] \in cutset
    THEN TrimRight(SubSeq(s, 1, Len(s) - 1), cutset)
    ELSE s

Trim(s, cutset) == TrimRight(TrimLeft(s, cutset), cutset)

\* The Message-ID written as it is, angle brackets included.
generateSegmentIDKept(messageID) == messageID

generateSegmentID(messageID) == Trim(messageID, {"<", ">"})

\* One <segment bytes="%d" number="%d">%s</segment> element.
SegmentElement(segment) ==
    [bytes |-> Decimal(segment.BytesPosted),
     number |-> Decimal(segment.PartNumber),
     id |-> generateSegmentID(segment.MessageID)]

\* buildNZBContent: one <file> element for each file that has segments, its
\* <segment> elements in the order of the file's segments.
RECURSIVE FileElements(_, _)
FileElements(allFiles, k) ==
    IF k > Len(allFiles) THEN <<>>
    ELSE (IF Len(allFiles[k].segments) = 0 THEN <<>>
          ELSE <<[name |-> allFiles[k].name,
                  subject |-> allFiles[k].segments[1].Subject,
                  segments |-> [i \in 1..Len(allFiles[k].segments) |->
                                   SegmentElement(allFiles[k].segments[i])]]>>)
         \o FileElements(allFiles, k + 1)

buildNZBContent(segs, additionalFiles) ==
    FileElements(<<[name |-> "main", segments |-> segs]>> \o additionalFiles, 1)

\* runPost's additionalFiles map in an order in which range may visit it.
AdditionalFiles ==
    LET par2 == IF Len(par2Segments) > 0
                THEN <<[name |-> "PAR2", segments |-> par2Segments]>> ELSE <<>>
        sfv == IF Len(sfvSegments) > 0
               THEN <<[name |-> "SFV", segments |-> sfvSegments]>> ELSE <<>>
    IN {par2 \o sfv, sfv \o par2}

\* runPost: the NZB is generated from allSegments and the additional files.
GenerateNZB ==
    /\ pc = "closed"
    /\ UNCHANGED <<yencVars, extraVars, par2Vars, moreVars>>
    /\ UNCHANGED postVars
    /\ \E additionalFiles \in AdditionalFiles :
          nzb' = buildNZBContent(allSegments, additionalFiles)
    /\ pc' = "generated"
    /\ UNCHANGED <<cfg, srv, parts, allSegments, broken, posted>>
    /\ UNCHANGED <<poolVars, chanVars, collVars, workVars>>

\* runPost: moveGeneratedFiles; an error is logged and the run goes on.
MoveGeneratedFiles ==
    /\ pc = "generated"
    /\ pc' = "moved"
    /\ UNCHANGED <<cfg, srv, parts, allSegments, nzb, broken, posted>>
    /\ UNCHANGED <<poolVars, chanVars, collVars, workVars, yencVars, postVars, extraVars, par2Vars, moreVars>>

\* runPost: cleanupAllPartFiles; an error is logged and the run ends.
CleanupAllPartFiles ==
    /\ pc = "moved"
    /\ pc' = "done"
    /\ UNCHANGED <<cfg, srv, parts, allSegments, nzb, broken, posted>>
    /\ UNCHANGED <<poolVars, chanVars, collVars, workVars, yencVars, postVars, extraVars, par2Vars, moreVars>>

Next ==
    \/ Split
    \/ BeginUpload
    \/ BeginUploadPanics
    \/ SendJob
    \/ CloseJobs
    \/ \E w \in Workers : TakeJob(w)
    \/ \E w \in Workers : WorkerDone(w)
    \/ \E w \in Workers : WorkerGetClient(w)
    \/ \E w \in Workers : WorkerJoinGroup(w)
    \/ \E w \in Workers : WorkerPost(w)
    \/ Collect
    \/ UploadReturn
    \/ AfterUpload
    \/ AllServersFailed
    \/ ClosePool
    \/ GenerateNZB
    \/ MoveGeneratedFiles
    \/ CleanupAllPartFiles

Spec == Init /\ [][Next]_vars

\* ----------------------------------------------------------- PoolSpec
\* One ConnectionPool used by concurrent callers, each running the client
\* calls of uploadChunk (GetClient, JoinGroup, PostArticle) again and again,
\* with CloseAll called at any time.
PoolConfigs ==
    [servers : [1..1 -> 0..MaxConnsBound],
     fileSize : {1},
     maxPartSize : {1},
     maxArticleSize : {1}]

PoolInit ==
    /\ cfg \in PoolConfigs
    /\ pc = "harness"
    /\ YencIdle
    /\ srv = 1
    /\ parts = <<>>
    /\ allSegments = <<>>
    /\ nzb = NoNZB
    /\ pool = NewConnectionPool(cfg.servers[1])
    /\ connected = {}
    /\ nclients = 0
    /\ quitSent = {}
    /\ broken = {}
    /\ poolClosed = FALSE
    /\ allJobs = <<>>
    /\ jobs = <<>>
    /\ sent = 0
    /\ jobsClosed = FALSE
    /\ results = <<>>
    /\ errors = <<>>
    /\ collected = 0
    /\ segments = <<>>
    /\ uploadErrors = <<>>
    /\ ret = NoRet
    /\ wpc = [w \in Workers |-> "get"]
    /\ wjob = [w \in Workers |-> 0]
    /\ wclient = [w \in Workers |-> NoClient]
    /\ posted = <<>>
    /\ now = 0
    /\ minted = <<>>
    /\ par2Idx = 0
    /\ par2Segments = <<>>
    /\ sfvSegments = <<>>
    /\ Par2Idle
    /\ MoreIdle

CallerGetClient(w) ==
    /\ pc = "harness"
    /\ UNCHANGED <<yencVars, extraVars, par2Vars, moreVars>>
    /\ UNCHANGED postVars
    /\ wpc[w] = "get"
    /\ nclients < MaxClients
    /\ \E outcome \in IF Connects(pool, connected) THEN ConnectOutcomes ELSE {"ok"} :
          LET r == GetClient(pool, connected, nclients, outcome)
          IN /\ pool' = r.pool
             /\ connected' = IF r.created THEN connected \cup {r.client} ELSE connected
             /\ nclients' = IF r.created THEN nclients + 1 ELSE nclients
             /\ IF r.client # NoClient
                THEN /\ wclient' = [wclient EXCEPT ![w] = r.client]
                     /\ wpc' = [wpc EXCEPT ![w] = "join"]
                ELSE UNCHANGED <<wclient, wpc>>
    /\ UNCHANGED <<quitSent, poolClosed, wjob, broken, posted>>
    /\ UNCHANGED <<mainVars, chanVars, collVars>>

CallerJoinGroup(w) ==
    /\ pc = "harness"
    /\ UNCHANGED <<yencVars, extraVars, par2Vars, moreVars>>
    /\ UNCHANGED postVars
    /\ wpc[w] = "join"
    /\ \E outcome \in JoinOutcomes :
          IF outcome = "ok" /\ wclient[w] \in connected
          THEN /\ wpc' = [wpc EXCEPT ![w] = "post"]
               /\ UNCHANGED broken
          ELSE /\ wpc' = [wpc EXCEPT ![w] = "get"]
               /\ broken' = broken \cup {wclient[w]}
    /\ UNCHANGED <<wjob, wclient, posted>>
    /\ UNCHANGED <<mainVars, poolVars, chanVars, collVars>>

CallerPost(w) ==
    /\ pc = "harness"
    /\ UNCHANGED <<yencVars, extraVars, par2Vars, moreVars>>
    /\ wpc[w] = "post"
    /\ Len(minted) < MaxPosts
    /\ \E outcome \in PostOutcomes :
       \E t1 \in Readings(now) : \E t2 \in Readings(t1) :
          IF outcome = "ok" /\ wclient[w] \in connected
          THEN /\ minted' = Append(minted, MintID(t1, t2, Host(srv)))
               /\ now' = t2
               /\ UNCHANGED broken
          ELSE /\ broken' = broken \cup {wclient[w]}
               /\ now' = IF outcome = "after340" /\ wclient[w] \in connected
                         THEN t2 ELSE now
               /\ UNCHANGED minted
    /\ wpc' = [wpc EXCEPT ![w] = "get"]
    /\ UNCHANGED <<wjob, wclient, posted>>
    /\ UNCHANGED <<mainVars, poolVars, chanVars, collVars>>

CallerCloseAll ==
    /\ pc = "harness"
    /\ UNCHANGED <<yencVars, extraVars, par2Vars, moreVars>>
    /\ UNCHANGED postVars
    /\ CloseAll
    /\ UNCHANGED <<nclients, broken, posted>>
    /\ UNCHANGED <<mainVars, chanVars, collVars, workVars>>

PoolNext ==
    \/ \E w \in Workers : CallerGetClient(w)
    \/ \E w \in Workers : CallerJoinGroup(w)
    \/ \E w \in Workers : CallerPost(w)
    \/ CallerCloseAll

PoolSpec == PoolInit /\ [][PoolNext]_vars

\* ----------------------------------------------------------- YencSpec
\* One byte vector encoded by Encode as a single-part article and the
\* article decoded by Decode.
\* The file name of the header, "f.b".
YencName == <<102, 46, 98>>

\* Bytes whose encodings are plain (1, 255) and escaped: 19 becomes '=',
\* 214 NUL, 223 TAB, 224 LF and 227 CR once 42 is added.
TailBytes == {1, 19, 214, 223, 224, 227, 255}

\* The byte b, n times.
Fill(b, n) == [k \in 1..n |-> b]

RECURSIVE Tails(_)
Tails(n) ==
    IF n = 0 THEN {<<>>}
    ELSE LET shorter == Tails(n - 1)
         IN shorter \cup {Append(t, b) : t \in {u \in shorter : Len(u) = n - 1},
                                         b \in TailBytes}

\* The inputs: every one-byte vector, and vectors of up to MaxTail bytes
\* from TailBytes that follow nothing, a line but one byte, a full line, or
\* two lines but one byte of plain encodings.
YencInputs ==
    {<<b>> : b \in 0..255}
        \cup {Fill(1, n) \o t : n \in {0, lineLength - 1, lineLength,
                                       2 * lineLength - 1},
                                t \in Tails(MaxTail)}

YencInit ==
    /\ pc = "yenc"
    /\ ypc = "ready"
    /\ yin \in [data : YencInputs, partNum : {1}, totalParts : {1}]
    /\ enc = NoEncoder
    /\ yout = <<>>
    /\ ydec = NoDecode
    /\ cfg = [servers |-> <<0>>, fileSize |-> 1, maxPartSize |-> 1,
              maxArticleSize |-> 1]
    /\ srv = 1
    /\ parts = <<>>
    /\ allSegments = <<>>
    /\ nzb = NoNZB
    /\ pool = NewConnectionPool(0)
    /\ connected = {}
    /\ nclients = 0
    /\ quitSent = {}
    /\ broken = {}
    /\ poolClosed = FALSE
    /\ allJobs = <<>>
    /\ jobs = <<>>
    /\ sent = 0
    /\ jobsClosed = FALSE
    /\ results = <<>>
    /\ errors = <<>>
    /\ collected = 0
    /\ segments = <<>>
    /\ uploadErrors = <<>>
    /\ ret = NoRet
    /\ wpc = [w \in Workers |-> "none"]
    /\ wjob = [w \in Workers |-> 0]
    /\ wclient = [w \in Workers |-> NoClient]
    /\ posted = <<>>
    /\ now = 0
    /\ minted = <<>>
    /\ par2Idx = 0
    /\ par2Segments = <<>>
    /\ sfvSegments = <<>>
    /\ Par2Idle
    /\ MoreIdle

YencEncode ==
    /\ pc = "yenc"
    /\ ypc = "ready"
    /\ enc' = EncoderState(yin.data)
    /\ yout' = Encode(yin.data, YencName, yin.partNum, yin.totalParts)
    /\ ypc' = "encoded"
    /\ UNCHANGED <<yin, ydec, broken, posted, postVars, extraVars, par2Vars, moreVars>>
    /\ UNCHANGED <<mainVars, poolVars, chanVars, collVars, workVars>>

YencDecode ==
    /\ pc = "yenc"
    /\ ypc = "encoded"
    /\ ydec' = Decode(yout)
    /\ ypc' = "decoded"
    /\ UNCHANGED <<yin, enc, yout, broken, posted, postVars, extraVars, par2Vars, moreVars>>
    /\ UNCHANGED <<mainVars, poolVars, chanVars, collVars, workVars>>

YencNext ==
    \/ YencEncode
    \/ YencDecode

YencSpec == YencInit /\ [][YencNext]_vars

\* ---------------------------------------------------------- SplitSpec
\* SplitFile on one file, then uploadParts' planning of the parts it made.
SplitConfigs ==
    [servers : {<<0>>},
     fileSize : 0..MaxSplitSize,
     maxPartSize : 1..MaxSplitPart,
     maxArticleSize : 1..MaxSplitPart]

SplitInit ==
    /\ cfg \in SplitConfigs
    /\ pc = "splitting"
    /\ YencIdle
    /\ srv = 1
    /\ parts = <<>>
    /\ allSegments = <<>>
    /\ nzb = NoNZB
    /\ pool = NewConnectionPool(0)
    /\ connected = {}
    /\ nclients = 0
    /\ quitSent = {}
    /\ broken = {}
    /\ poolClosed = FALSE
    /\ allJobs = <<>>
    /\ jobs = <<>>
    /\ sent = 0
    /\ jobsClosed = FALSE
    /\ results = <<>>
    /\ errors = <<>>
    /\ collected = 0
    /\ segments = <<>>
    /\ uploadErrors = <<>>
    /\ ret = NoRet
    /\ wpc = [w \in Workers |-> "none"]
    /\ wjob = [w \in Workers |-> 0]
    /\ wclient = [w \in Workers |-> NoClient]
    /\ posted = <<>>
    /\ now = 0
    /\ minted = <<>>
    /\ par2Idx = 0
    /\ par2Segments = <<>>
    /\ sfvSegments = <<>>
    /\ Par2Idle
    /\ MoreIdle

SplitRun ==
    /\ pc = "splitting"
    /\ parts' = SplitFile(cfg.fileSize, cfg.maxPartSize)
    /\ pc' = "planning"
    /\ UNCHANGED <<cfg, srv, allSegments, nzb, broken, posted>>
    /\ UNCHANGED <<poolVars, chanVars, collVars, workVars, yencVars, postVars, extraVars, par2Vars, moreVars>>

PlanRun ==
    /\ pc = "planning"
    /\ allJobs' = PlanJobs(parts, cfg.maxArticleSize)
    /\ pc' = "planned"
    /\ UNCHANGED <<jobs, sent, jobsClosed, results, errors, broken, posted>>
    /\ UNCHANGED <<cfg, srv, parts, allSegments, nzb>>
    /\ UNCHANGED <<poolVars, collVars, workVars, yencVars, postVars, extraVars, par2Vars, moreVars>>

SplitNext ==
    \/ SplitRun
    \/ PlanRun

SplitSpec == SplitInit /\ [][SplitNext]_vars

\* ------------------------------------------------------------ NzbSpec
\* runPost with PAR2 and SFV files to post: the main upload, the loop over
\* par2Files, the SFV upload, CloseAll and Generate. Each uploadParts call is
\* one step here, with the results uploadParts has in Spec: an error, or the
\* segments 1..C of the file's C chunks in the order the workers finished.
RECURSIVE SeqsUpTo(_, _)
\* The sequences over S of length at most n.
SeqsUpTo(S, n) ==
    IF n = 0 THEN {<<>>}
    ELSE LET shorter == SeqsUpTo(S, n - 1)
         IN shorter \cup {Append(q, x) : q \in {r \in shorter : Len(r) = n - 1},
                                         x \in S}

NzbConfigs ==
    [servers : {<<1>>, <<1, 2>>},
     fileSize : {1},
     maxPartSize : {1},
     maxArticleSize : {1},
     mainChunks : 1..MaxNzbChunks,
     par2Files : SeqsUpTo(1..MaxNzbChunks, MaxPar2Files),
     sfvChunks : 0..1]

NzbInit ==
    /\ cfg \in NzbConfigs
    /\ pc = "main"
    /\ YencIdle
    /\ srv = 1
    /\ parts = <<>>
    /\ allSegments = <<>>
    /\ nzb = NoNZB
    /\ pool = NewConnectionPool(cfg.servers[1])
    /\ connected = {}
    /\ nclients = 0
    /\ quitSent = {}
    /\ broken = {}
    /\ poolClosed = FALSE
    /\ allJobs = <<>>
    /\ jobs = <<>>
    /\ sent = 0
    /\ jobsClosed = FALSE
    /\ results = <<>>
    /\ errors = <<>>
    /\ collected = 0
    /\ segments = <<>>
    /\ uploadErrors = <<>>
    /\ ret = NoRet
    /\ wpc = [w \in Workers |-> "none"]
    /\ wjob = [w \in Workers |-> 0]
    /\ wclient = [w \in Workers |-> NoClient]
    /\ posted = <<>>
    /\ now = 0
    /\ minted = <<>>
    /\ par2Idx = 0
    /\ par2Segments = <<>>
    /\ sfvSegments = <<>>
    /\ Par2Idle
    /\ MoreIdle

\* The orders in which the segments of C chunks may arrive.
Arrivals(C) ==
    {o \in [1..C -> 1..C] : \A i, j \in 1..C : i # j => o[i] # o[j]}

\* The segments a successful uploadParts returns for a file of C chunks that
\* arrive in the order given, chunk n of n bytes posted at the reading ts[n].
UploadedSegments(C, order, ts) ==
    [k \in 1..C |->
        Segment([chunkNumber |-> order[k], part |-> 1, totalParts |-> 1,
                 chunkData |-> [b \in 1..order[k] |-> 0]],
                C, MintID(ts[order[k]], ts[order[k]], Host(srv)))]

\* The later of two clock readings.
Later(a, b) == IF a > b THEN a ELSE b

RECURSIVE LastReading(_, _)
LastReading(ts, k) == IF k = 0 THEN now ELSE Later(ts[k], LastReading(ts, k - 1))

\* What one uploadParts call that returns leaves behind: the clock's reading
\* and the Message-IDs minted.
Uploaded(segs, ts) ==
    /\ now' = LastReading(ts, Len(ts))
    /\ minted' = minted \o [k \in 1..Len(segs) |-> segs[k].MessageID]

\* The phase of runPost that follows the PAR2 file of index idx.
PhaseAfter(idx) ==
    IF idx < Len(cfg.par2Files) THEN "par2"
    ELSE IF cfg.sfvChunks > 0 THEN "sfv"
    ELSE "uploaded"

\* A loop that goes on to the next server whatever the upload returned.
LoopServerContinue(ok, s) == s + 1

\* The server the loop turns to: none other once an upload has succeeded
\* (break), the next one after a failure (continue).
LoopServer(ok, s) == IF ok THEN s ELSE s + 1

\* runPost: one pass of the loop over the configured servers.
PostMain ==
    /\ pc = "main"
    /\ \E ok \in BOOLEAN :
       \E order \in Arrivals(cfg.mainChunks) :
       \E ts \in [1..cfg.mainChunks -> Readings(now)] :
          /\ srv' = LoopServer(ok, srv)
          /\ IF ok
             THEN /\ allSegments' = UploadedSegments(cfg.mainChunks, order, ts)
                  /\ Uploaded(allSegments', ts)
                  /\ pool' = NewConnectionPool(cfg.servers[srv])
                  /\ poolClosed' = FALSE
                  /\ pc' = PhaseAfter(0)
                  /\ UNCHANGED <<connected, nclients, quitSent>>
             ELSE /\ pool' = CloseAllPool(NewConnectionPool(cfg.servers[srv]))
                  /\ poolClosed' = TRUE
                  /\ pc' = IF srv < Len(cfg.servers) THEN "main" ELSE "servers"
                  /\ UNCHANGED <<allSegments, connected, nclients, quitSent, postVars>>
    /\ UNCHANGED <<cfg, parts, nzb, broken, posted>>
    /\ UNCHANGED <<chanVars, collVars, workVars, yencVars, extraVars, par2Vars, moreVars>>

\* runPost: one pass of the loop over par2Files.
PostPar2File ==
    /\ pc = "par2"
    /\ par2Idx < Len(cfg.par2Files)
    /\ LET C == cfg.par2Files[par2Idx + 1]
       IN \E ok \in BOOLEAN :
          \E order \in Arrivals(C) :
          \E ts \in [1..C -> Readings(now)] :
             IF ok
             THEN /\ par2Segments' = par2Segments \o UploadedSegments(C, order, ts)
                  /\ Uploaded(UploadedSegments(C, order, ts), ts)
             ELSE UNCHANGED <<par2Segments, postVars>>
    /\ par2Idx' = par2Idx + 1
    /\ pc' = PhaseAfter(par2Idx + 1)
    /\ UNCHANGED <<cfg, srv, parts, allSegments, nzb, broken, posted, sfvSegments>>
    /\ UNCHANGED <<poolVars, chanVars, collVars, workVars, yencVars, par2Vars, moreVars>>

\* runPost: the SFV file.
PostSFV ==
    /\ pc = "sfv"
    /\ \E ok \in BOOLEAN :
       \E order \in Arrivals(cfg.sfvChunks) :
       \E ts \in [1..cfg.sfvChunks -> Readings(now)] :
          IF ok
          THEN /\ sfvSegments' = UploadedSegments(cfg.sfvChunks, order, ts)
               /\ Uploaded(sfvSegments', ts)
          ELSE UNCHANGED <<sfvSegments, postVars>>
    /\ pc' = "uploaded"
    /\ UNCHANGED <<cfg, srv, parts, allSegments, nzb, broken, posted>>
    /\ UNCHANGED <<par2Idx, par2Segments>>
    /\ UNCHANGED <<poolVars, chanVars, collVars, workVars, yencVars, par2Vars, moreVars>>

NzbNext ==
    \/ PostMain
    \/ PostPar2File
    \/ PostSFV
    \/ AllServersFailed
    \/ ClosePool
    \/ GenerateNZB
    \/ MoveGeneratedFiles
    \/ CleanupAllPartFiles

NzbSpec == NzbInit /\ [][NzbNext]_vars

\* ----------------------------------------------------------- Par2Spec
\* CreatePAR2ForParts on parts of given sizes. Part sizes are real byte
\* counts; the sets hold sizes around each slice-size threshold, parts that
\* are and are not multiples of the slice size, and the flag's range of
\* redundancy including zero and a negative value.
Par2Sizes ==
    {<<1>>, <<52, 52, 52>>, <<4 * KiB>>, <<4 * KiB + 1>>, <<4 * KiB, 4 * KiB>>,
     <<4000, 5000>>, <<8 * KiB, 100>>, <<100, 8 * KiB>>, <<6000, 6000, 6000>>,
     <<MiB - 1>>, <<MiB>>, <<MiB \div 2, MiB \div 2>>, <<50 * MiB>>,
     <<100 * MiB - 1>>, <<100 * MiB>>, <<GiB - 1>>, <<GiB>>, <<GiB + 1>>,
     <<GiB \div 2, GiB \div 2>>}

Par2Redundancies == {-10, 0, 5, 10, 15, 100, 101}

Par2Init ==
    /\ cfg = [servers |-> <<0>>, fileSize |-> 1, maxPartSize |-> 1,
              maxArticleSize |-> 1]
    /\ pc = "par2"
    /\ YencIdle
    /\ srv = 1
    /\ parts = <<>>
    /\ allSegments = <<>>
    /\ nzb = NoNZB
    /\ pool = NewConnectionPool(0)
    /\ connected = {}
    /\ nclients = 0
    /\ quitSent = {}
    /\ broken = {}
    /\ poolClosed = FALSE
    /\ allJobs = <<>>
    /\ jobs = <<>>
    /\ sent = 0
    /\ jobsClosed = FALSE
    /\ results = <<>>
    /\ errors = <<>>
    /\ collected = 0
    /\ segments = <<>>
    /\ uploadErrors = <<>>
    /\ ret = NoRet
    /\ wpc = [w \in Workers |-> "none"]
    /\ wjob = [w \in Workers |-> 0]
    /\ wclient = [w \in Workers |-> NoClient]
    /\ posted = <<>>
    /\ now = 0
    /\ minted = <<>>
    /\ par2Idx = 0
    /\ par2Segments = <<>>
    /\ sfvSegments = <<>>
    /\ ppc = "start"
    /\ pin \in [sizes : Par2Sizes, redundancy : Par2Redundancies]
    /\ pout = NoPar2
    /\ MoreIdle

Par2Create ==
    /\ ppc = "start"
    /\ pout' = CreatePAR2ForParts(pin.sizes, pin.redundancy)
    /\ ppc' = "created"
    /\ UNCHANGED <<pin, broken, posted>>
    /\ UNCHANGED <<mainVars, poolVars, chanVars, collVars, workVars, yencVars, postVars, extraVars, moreVars>>

Par2Next == Par2Create

Par2Spec == Par2Init /\ [][Par2Next]_vars

\* -------------------------------------------------------- ArticleSpec
\* PostArticle called once on a connected client with a body of up to
\* MaxBody characters out of '.', '%', 'd', CR and LF.
BodyChars == {Dot, Percent, 100, 13, 10}

Bodies == UNION {[1..n -> BodyChars] : n \in 0..MaxBody}

ArticleInit ==
    /\ cfg = [servers |-> <<1>>, fileSize |-> 1, maxPartSize |-> 1,
              maxArticleSize |-> 1]
    /\ pc = "article"
    /\ YencIdle
    /\ srv = 1
    /\ parts = <<>>
    /\ allSegments = <<>>
    /\ nzb = NoNZB
    /\ pool = NewConnectionPool(0)
    /\ connected = {}
    /\ nclients = 0
    /\ quitSent = {}
    /\ broken = {}
    /\ poolClosed = FALSE
    /\ allJobs = <<>>
    /\ jobs = <<>>
    /\ sent = 0
    /\ jobsClosed = FALSE
    /\ results = <<>>
    /\ errors = <<>>
    /\ collected = 0
    /\ segments = <<>>
    /\ uploadErrors = <<>>
    /\ ret = NoRet
    /\ wpc = [w \in Workers |-> "none"]
    /\ wjob = [w \in Workers |-> 0]
    /\ wclient = [w \in Workers |-> NoClient]
    /\ posted = <<>>
    /\ now = 0
    /\ minted = <<>>
    /\ par2Idx = 0
    /\ par2Segments = <<>>
    /\ sfvSegments = <<>>
    /\ Par2Idle
    /\ art \in [pc : {"ready"}, body : Bodies, sent : {<<>>}]
    /\ xr = NoXor
    /\ wire = <<>>
    /\ wloc = <<>>

ArticlePost ==
    /\ art.pc = "ready"
    /\ \E accepted \in BOOLEAN :
          art' = [art EXCEPT !.pc = IF accepted THEN "sent" ELSE "rejected",
                             !.sent = PostArticleWrites(art.body, accepted)]
    /\ UNCHANGED <<xr, wire, wloc, broken, posted>>
    /\ UNCHANGED <<mainVars, poolVars, chanVars, collVars, workVars, yencVars, postVars, extraVars, par2Vars>>

ArticleNext == ArticlePost

ArticleSpec == ArticleInit /\ [][ArticleNext]_vars

\* ------------------------------------------------------------ XorSpec
\* xorBytes and xorBytesOptimized run on the same memory and the same two
\* slices: slices of 0..MaxXorLen bytes that lie apart, or that share bytes
\* with either one starting first.
MemLen == 2 * MaxXorLen + 2

\* Two fillings of the memory.
MemFills == {[k \in 1..MemLen |-> k], [k \in 1..MemLen |-> (k * 37) % 256]}

XorSlices == {sl \in (0..(MaxXorLen + 1)) \X (0..MaxXorLen) : sl[1] \in {0, 1, MaxXorLen + 1}}

XorInit ==
    /\ cfg = [servers |-> <<1>>, fileSize |-> 1, maxPartSize |-> 1,
              maxArticleSize |-> 1]
    /\ pc = "xor"
    /\ YencIdle
    /\ srv = 1
    /\ parts = <<>>
    /\ allSegments = <<>>
    /\ nzb = NoNZB
    /\ pool = NewConnectionPool(0)
    /\ connected = {}
    /\ nclients = 0
    /\ quitSent = {}
    /\ broken = {}
    /\ poolClosed = FALSE
    /\ allJobs = <<>>
    /\ jobs = <<>>
    /\ sent = 0
    /\ jobsClosed = FALSE
    /\ results = <<>>
    /\ errors = <<>>
    /\ collected = 0
    /\ segments = <<>>
    /\ uploadErrors = <<>>
    /\ ret = NoRet
    /\ wpc = [w \in Workers |-> "none"]
    /\ wjob = [w \in Workers |-> 0]
    /\ wclient = [w \in Workers |-> NoClient]
    /\ posted = <<>>
    /\ now = 0
    /\ minted = <<>>
    /\ par2Idx = 0
    /\ par2Segments = <<>>
    /\ sfvSegments = <<>>
    /\ Par2Idle
    /\ art = NoArticle
    /\ xr \in [pc : {"ready"}, mem : MemFills, dst : XorSlices, src : XorSlices,
               plain : {<<>>}, optimized : {<<>>}]
    /\ wire = <<>>
    /\ wloc = <<>>

\* xorBytes(dst, src) on a copy of the memory.
RunXorBytes ==
    /\ xr.pc = "ready"
    /\ xr' = [xr EXCEPT !.pc = "plain", !.plain = xorBytes(xr.mem, xr.dst, xr.src)]
    /\ UNCHANGED <<art, wire, wloc, broken, posted>>
    /\ UNCHANGED <<mainVars, poolVars, chanVars, collVars, workVars, yencVars, postVars, extraVars, par2Vars>>

\* xorBytesOptimized(dst, src) on another copy.
RunXorBytesOptimized ==
    /\ xr.pc = "plain"
    /\ xr' = [xr EXCEPT !.pc = "both",
                        !.optimized = xorBytesOptimized(xr.mem, xr.dst, xr.src)]
    /\ UNCHANGED <<art, wire, wloc, broken, posted>>
    /\ UNCHANGED <<mainVars, poolVars, chanVars, collVars, workVars, yencVars, postVars, extraVars, par2Vars>>

XorNext == RunXorBytes \/ RunXorBytesOptimized

XorSpec == XorInit /\ [][XorNext]_vars

\* ---------------------------------------------------------- ChunkSpec
\* uploadChunk step by step: ChunkWorkers workers of one uploadParts call,
\* each with one job, sharing the pool and the yEnc encoder. What a client
\* writes to its connection and reads from it is recorded in wire, one
\* entry for each command or response; the article that follows 340 (its
\* headers, the blank line, the body and the terminator) is one entry, and
\* so is GROUP with its response.
ChunkWorkers == 1..2

\* The jobs: a file of three bytes in one part, in articles of two bytes.
ChunkJobs == PlanJobs(SplitFile(3, 3), 2)

Credentials == {"", "secret"}

ChunkConfigs ==
    [servers : [1..1 -> 1..MaxConnsBound],
     fileSize : {3},
     maxPartSize : {3},
     maxArticleSize : {2},
     username : Credentials,
     password : Credentials]

Written(w, item, text) ==
    [by |-> w, dir |-> "write", item |-> item, ok |-> TRUE, text |-> text]

Read(w, code, ok) ==
    [by |-> w, dir |-> "read", item |-> code, ok |-> ok, text |-> <<>>]

\* Client.Authenticate for a caller w: what it writes and reads with the
\* server answering 381 and 281 or not, and whether it returns an error.
Authenticate(w, username, password, got381, got281) ==
    IF username = "" \/ password = ""
    THEN [err |-> FALSE, wire |-> <<>>]
    ELSE IF ~got381
    THEN [err |-> TRUE,
          wire |-> <<Written(w, "AUTHINFO USER", <<>>), Read(w, "381", FALSE)>>]
    ELSE [err |-> ~got281,
          wire |-> <<Written(w, "AUTHINFO USER", <<>>), Read(w, "381", TRUE),
                     Written(w, "AUTHINFO PASS", <<>>), Read(w, "281", got281)>>]

NoLocals == [header |-> <<>>, trailer |-> <<>>, messageID |-> <<>>]

ChunkInit ==
    /\ cfg \in ChunkConfigs
    /\ pc = "chunks"
    /\ YencIdle
    /\ srv = 1
    /\ parts = SplitFile(3, 3)
    /\ allSegments = <<>>
    /\ nzb = NoNZB
    /\ pool = NewConnectionPool(cfg.servers[1])
    /\ connected = {}
    /\ nclients = 0
    /\ quitSent = {}
    /\ broken = {}
    /\ poolClosed = FALSE
    /\ allJobs = ChunkJobs
    /\ jobs = <<>>
    /\ sent = Len(ChunkJobs)
    /\ jobsClosed = TRUE
    /\ results = <<>>
    /\ errors = <<>>
    /\ collected = 0
    /\ segments = <<>>
    /\ uploadErrors = <<>>
    /\ ret = NoRet
    /\ wpc = [w \in Workers |-> IF w \in ChunkWorkers THEN "get" ELSE "none"]
    /\ wjob = [w \in Workers |-> IF w \in ChunkWorkers THEN w ELSE 0]
    /\ wclient = [w \in Workers |-> NoClient]
    /\ posted = [c \in 1..Len(ChunkJobs) |-> 0]
    /\ now = MaxClock
    /\ minted = <<>>
    /\ par2Idx = 0
    /\ par2Segments = <<>>
    /\ sfvSegments = <<>>
    /\ Par2Idle
    /\ art = NoArticle
    /\ xr = NoXor
    /\ wire = <<>>
    /\ wloc = [w \in Workers |-> NoLocals]

\* What no step of uploadChunk changes.
ChunkFrame ==
    UNCHANGED <<cfg, pc, srv, parts, allSegments, nzb, poolClosed, allJobs, jobs,
                sent, jobsClosed, collected, segments, uploadErrors, ret, wjob,
                ypc, yin, yout, ydec, art, xr, extraVars, par2Vars>>

\* uploadChunk: pool.GetClient(), with Connect and Authenticate when a
\* client is created. A client whose Authenticate fails is sent QUIT.
ChunkGetClient(w) ==
    /\ wpc[w] = "get"
    /\ \E connectOk \in IF Connects(pool, connected) THEN BOOLEAN ELSE {TRUE} :
       \E got381 \in IF Connects(pool, connected) /\ connectOk THEN BOOLEAN ELSE {TRUE} :
       \E got281 \in IF Connects(pool, connected) /\ connectOk /\ got381
                     THEN BOOLEAN ELSE {TRUE} :
          LET auth == Authenticate(w, cfg.username, cfg.password, got381, got281)
              outcome == IF ~connectOk THEN "connectFailed"
                         ELSE IF auth.err THEN "authFailed" ELSE "ok"
              r == GetClient(pool, connected, nclients, outcome)
              made == Connects(pool, connected) /\ connectOk
          IN /\ pool' = r.pool
             /\ nclients' = IF made THEN nclients + 1 ELSE nclients
             /\ connected' = IF r.created THEN connected \cup {r.client} ELSE connected
             /\ quitSent' = IF made /\ auth.err THEN quitSent \cup {nclients + 1}
                            ELSE quitSent
             /\ wire' = IF made
                        THEN Append(wire, IF auth.err
                                          THEN Append(auth.wire, Written(w, "QUIT", <<>>))
                                          ELSE auth.wire)
                        ELSE wire
             /\ IF r.client # NoClient
                THEN /\ wclient' = [wclient EXCEPT ![w] = r.client]
                     /\ wpc' = [wpc EXCEPT ![w] = "join"]
                     /\ UNCHANGED errors
                ELSE /\ WorkerFails(w, "getclient")
                     /\ UNCHANGED wclient
    /\ UNCHANGED <<results, broken, posted, enc, wloc, postVars>>
    /\ ChunkFrame

\* uploadChunk: client.JoinGroup(group).
ChunkJoinGroup(w) ==
    /\ wpc[w] = "join"
    /\ \E got211 \in BOOLEAN :
          /\ wire' = [wire EXCEPT ![wclient[w]] =
                         @ \o <<Written(w, "GROUP", <<>>), Read(w, "211", got211)>>]
          /\ IF got211
             THEN /\ wpc' = [wpc EXCEPT ![w] = "crc"]
                  /\ UNCHANGED <<errors, broken>>
             ELSE /\ WorkerFails(w, "join")
                  /\ broken' = broken \cup {wclient[w]}
    /\ UNCHANGED <<pool, connected, nclients, quitSent, results, wclient, posted,
                   enc, wloc, postVars>>
    /\ ChunkFrame

\* Encode: e.crc32 = crc32.ChecksumIEEE(data)
EncodeCrc(w) ==
    /\ wpc[w] = "crc"
    /\ enc' = [enc EXCEPT !.crc32 = ChecksumIEEE(allJobs[wjob[w]].chunkData)]
    /\ wpc' = [wpc EXCEPT ![w] = "size"]
    /\ UNCHANGED <<pool, connected, nclients, quitSent, results, errors, broken,
                   wclient, posted, wire, wloc, postVars>>
    /\ ChunkFrame

\* Encode: e.size = int64(len(data))
EncodeSize(w) ==
    /\ wpc[w] = "size"
    /\ enc' = [enc EXCEPT !.size = Len(allJobs[wjob[w]].chunkData)]
    /\ wpc' = [wpc EXCEPT ![w] = "header"]
    /\ UNCHANGED <<pool, connected, nclients, quitSent, results, errors, broken,
                   wclient, posted, wire, wloc, postVars>>
    /\ ChunkFrame

\* Encode: header := e.buildHeader(filename, partNum, totalParts)
EncodeHeader(w) ==
    /\ wpc[w] = "header"
    /\ wloc' = [wloc EXCEPT ![w].header =
                   buildHeader(enc, YencName, allJobs[wjob[w]].part,
                               allJobs[wjob[w]].totalParts)]
    /\ wpc' = [wpc EXCEPT ![w] = "trailer"]
    /\ UNCHANGED <<pool, connected, nclients, quitSent, results, errors, broken,
                   wclient, posted, wire, enc, postVars>>
    /\ ChunkFrame

\* Encode: the data lines, which read no field of the encoder, and
\* trailer := e.buildTrailer()
EncodeTrailer(w) ==
    /\ wpc[w] = "trailer"
    /\ wloc' = [wloc EXCEPT ![w].trailer = buildTrailer(enc)]
    /\ wpc' = [wpc EXCEPT ![w] = "post"]
    /\ UNCHANGED <<pool, connected, nclients, quitSent, results, errors, broken,
                   wclient, posted, wire, enc, postVars>>
    /\ ChunkFrame

\* PostArticle: the POST command.
PostCommand(w) ==
    /\ wpc[w] = "post"
    /\ IF wclient[w] \in connected
       THEN /\ wire' = [wire EXCEPT ![wclient[w]] = Append(@, Written(w, "POST", <<>>))]
            /\ wpc' = [wpc EXCEPT ![w] = "340"]
            /\ UNCHANGED <<errors, broken>>
       ELSE /\ WorkerFails(w, "post")
            /\ broken' = broken \cup {wclient[w]}
            /\ UNCHANGED wire
    /\ UNCHANGED <<pool, connected, nclients, quitSent, results, wclient, posted,
                   enc, wloc, postVars>>
    /\ ChunkFrame

\* PostArticle: ReadCodeLine(340).
PostRead340(w) ==
    /\ wpc[w] = "340"
    /\ \E got340 \in BOOLEAN :
          /\ wire' = [wire EXCEPT ![wclient[w]] = Append(@, Read(w, "340", got340))]
          /\ IF got340
             THEN /\ wpc' = [wpc EXCEPT ![w] = "article"]
                  /\ UNCHANGED <<errors, broken>>
             ELSE /\ WorkerFails(w, "post")
                  /\ broken' = broken \cup {wclient[w]}
    /\ UNCHANGED <<pool, connected, nclients, quitSent, results, wclient, posted,
                   enc, wloc, postVars>>
    /\ ChunkFrame

\* PostArticle: the Message-ID, the headers, the blank line, the body lines
\* and the terminator.
PostWrite(w) ==
    /\ wpc[w] = "article"
    /\ \E t1 \in Readings(now) : \E t2 \in Readings(t1) :
          /\ wloc' = [wloc EXCEPT ![w].messageID = MintID(t1, t2, Host(srv))]
          /\ now' = t2
    /\ wire' = [wire EXCEPT ![wclient[w]] =
                   Append(@, Written(w, "article", <<wloc[w].header, wloc[w].trailer>>))]
    /\ wpc' = [wpc EXCEPT ![w] = "240"]
    /\ UNCHANGED <<pool, connected, nclients, quitSent, results, errors, broken,
                   wclient, posted, enc, minted>>
    /\ ChunkFrame

\* PostArticle: ReadCodeLine(240), and uploadChunk's segment.
PostRead240(w) ==
    /\ wpc[w] = "240"
    /\ \E got240 \in BOOLEAN :
          /\ wire' = [wire EXCEPT ![wclient[w]] = Append(@, Read(w, "240", got240))]
          /\ IF got240
             THEN /\ results' = Append(results,
                                       Segment(allJobs[wjob[w]], Len(allJobs),
                                               wloc[w].messageID))
                  /\ posted' = [posted EXCEPT ![allJobs[wjob[w]].chunkNumber] = @ + 1]
                  /\ minted' = Append(minted, wloc[w].messageID)
                  /\ wpc' = [wpc EXCEPT ![w] = "done"]
                  /\ UNCHANGED <<errors, broken>>
             ELSE /\ WorkerFails(w, "post")
                  /\ broken' = broken \cup {wclient[w]}
                  /\ UNCHANGED <<results, posted, minted>>
    /\ UNCHANGED <<pool, connected, nclients, quitSent, wclient, enc, wloc, now>>
    /\ ChunkFrame

ChunkNext ==
    \/ \E w \in ChunkWorkers : ChunkGetClient(w)
    \/ \E w \in ChunkWorkers : ChunkJoinGroup(w)
    \/ \E w \in ChunkWorkers : EncodeCrc(w)
    \/ \E w \in ChunkWorkers : EncodeSize(w)
    \/ \E w \in ChunkWorkers : EncodeHeader(w)
    \/ \E w \in ChunkWorkers : EncodeTrailer(w)
    \/ \E w \in ChunkWorkers : PostCommand(w)
    \/ \E w \in ChunkWorkers : PostRead340(w)
    \/ \E w \in ChunkWorkers : PostWrite(w)
    \/ \E w \in ChunkWorkers : PostRead240(w)

ChunkSpec == ChunkInit /\ [][ChunkNext]_vars

\* ----------------------------------------------------------- HeaderSpec
\* PostArticle's headers: the map headersToSend and the order in which the
\* range over it writes the header lines.
StandardHeaders ==
    [name \in HeaderNames |-> "standard"]

\* The custom headers of the configuration: none, one with the name of a
\* standard header, one with a name of its own, or both.
CustomHeaders ==
    {[name \in names |-> "custom"] : names \in SUBSET {"Subject", "X-No-Archive"}}

\* headersToSend once the custom headers are added: headersToSend[k] = v.
headersToSend(headers) ==
    [name \in HeaderNames \cup DOMAIN headers |->
        IF name \in DOMAIN headers THEN headers[name] ELSE StandardHeaders[name]]

RECURSIVE Orders(_)
\* The orders in which a range over a map with the keys S may visit them.
Orders(S) ==
    IF S = {} THEN {<<>>}
    ELSE UNION {{<<name>> \o rest : rest \in Orders(S \ {name})} : name \in S}

\* The header lines written, as <<key, value>> in the order of the range.
SendHeaders(toSend, order) ==
    [k \in 1..Len(order) |-> <<order[k], toSend[order[k]]>>]

HeaderInit ==
    /\ cfg = [servers |-> <<1>>, fileSize |-> 1, maxPartSize |-> 1,
              maxArticleSize |-> 1]
    /\ pc = "article"
    /\ YencIdle
    /\ srv = 1
    /\ parts = <<>>
    /\ allSegments = <<>>
    /\ nzb = NoNZB
    /\ pool = NewConnectionPool(0)
    /\ connected = {}
    /\ nclients = 0
    /\ quitSent = {}
    /\ broken = {}
    /\ poolClosed = FALSE
    /\ allJobs = <<>>
    /\ jobs = <<>>
    /\ sent = 0
    /\ jobsClosed = FALSE
    /\ results = <<>>
    /\ errors = <<>>
    /\ collected = 0
    /\ segments = <<>>
    /\ uploadErrors = <<>>
    /\ ret = NoRet
    /\ wpc = [w \in Workers |-> "none"]
    /\ wjob = [w \in Workers |-> 0]
    /\ wclient = [w \in Workers |-> NoClient]
    /\ posted = <<>>
    /\ now = 0
    /\ minted = <<>>
    /\ par2Idx = 0
    /\ par2Segments = <<>>
    /\ sfvSegments = <<>>
    /\ Par2Idle
    /\ art \in [pc : {"ready"}, body : {<<100>>}, sent : {<<>>},
              headers : CustomHeaders]
    /\ xr = NoXor
    /\ wire = <<>>
    /\ wloc = <<>>

\* PostArticle on a server that answers 340, with the header lines kept.
HeaderPost ==
    /\ art.pc = "ready"
    /\ \E order \in Orders(DOMAIN headersToSend(art.headers)) :
          art' = [art EXCEPT
                     !.pc = "sent",
                     !.sent = [command |-> "POST",
                               headers |-> SendHeaders(headersToSend(art.headers), order),
                               rest |-> SendBody(art.body)]]
    /\ UNCHANGED <<xr, wire, wloc, broken, posted>>
    /\ UNCHANGED <<mainVars, poolVars, chanVars, collVars, workVars, yencVars, postVars, extraVars, par2Vars>>

HeaderNext == HeaderPost

HeaderSpec == HeaderInit /\ [][HeaderNext]_vars

\* ------------------------------------------------------------- WaitSpec
\* One uploadChunk call on an empty pool, response by response, against a
\* server that may stay silent: the client dials, reads the greeting,
\* authenticates, joins the group and posts. Every response is read with
\* ReadCodeLine on a connection that has no deadline set.
ResponseCodes == {"200", "381", "281", "211", "340", "240"}

\* silent names the response the server never sends, if any.
WaitConfigs ==
    [servers : {<<1>>},
     fileSize : {3},
     maxPartSize : {3},
     maxArticleSize : {2},
     username : Credentials,
     password : Credentials,
     silent : ResponseCodes \cup {"none"}]

WaitInit ==
    /\ cfg \in WaitConfigs
    /\ pc = "wait"
    /\ YencIdle
    /\ srv = 1
    /\ parts = SplitFile(3, 3)
    /\ allSegments = <<>>
    /\ nzb = NoNZB
    /\ pool = NewConnectionPool(cfg.servers[1])
    /\ connected = {}
    /\ nclients = 0
    /\ quitSent = {}
    /\ broken = {}
    /\ poolClosed = FALSE
    /\ allJobs = ChunkJobs
    /\ jobs = <<>>
    /\ sent = Len(ChunkJobs)
    /\ jobsClosed = TRUE
    /\ results = <<>>
    /\ errors = <<>>
    /\ collected = 0
    /\ segments = <<>>
    /\ uploadErrors = <<>>
    /\ ret = NoRet
    /\ wpc = [w \in Workers |-> IF w = 1 THEN "dial" ELSE "none"]
    /\ wjob = [w \in Workers |-> IF w = 1 THEN 1 ELSE 0]
    /\ wclient = [w \in Workers |-> NoClient]
    /\ posted = [c \in 1..Len(ChunkJobs) |-> 0]
    /\ now = MaxClock
    /\ minted = <<>>
    /\ par2Idx = 0
    /\ par2Segments = <<>>
    /\ sfvSegments = <<>>
    /\ Par2Idle
    /\ art = NoArticle
    /\ xr = NoXor
    /\ wire = <<>>
    /\ wloc = [w \in Workers |-> NoLocals]

WaitFrame ==
    UNCHANGED <<cfg, pc, srv, parts, allSegments, nzb, poolClosed, allJobs, jobs,
                sent, jobsClosed, collected, segments, uploadErrors, ret, wjob,
                ypc, yin, yout, ydec, art, xr, extraVars, par2Vars,
                results, broken, posted, enc, wloc, postVars>>

\* Connect: tls.Dial or net.Dial.
Dial(w) ==
    /\ wpc[w] = "dial"
    /\ \E dialed \in BOOLEAN :
          IF dialed
          THEN /\ nclients' = nclients + 1
               /\ wire' = Append(wire, <<>>)
               /\ wclient' = [wclient EXCEPT ![w] = nclients + 1]
               /\ wpc' = [wpc EXCEPT ![w] = "200"]
               /\ UNCHANGED errors
          ELSE /\ WorkerFails(w, "getclient")
               /\ UNCHANGED <<nclients, wire, wclient>>
    /\ UNCHANGED <<pool, connected, quitSent>>
    /\ WaitFrame

\* The command written before each response is read.
CommandBefore ==
    [code \in ResponseCodes \ {"200"} |->
        CASE code = "381" -> "AUTHINFO USER"
          [] code = "281" -> "AUTHINFO PASS"
          [] code = "211" -> "GROUP"
          [] code = "340" -> "POST"
          [] code = "240" -> "article"]

\* The response a caller waits for next, once code has been read.
NextResponse(code, username, password) ==
    CASE code = "200" -> IF username = "" \/ password = "" THEN "211" ELSE "381"
      [] code = "381" -> "281"
      [] code = "281" -> "211"
      [] code = "211" -> "340"
      [] code = "340" -> "240"
      [] code = "240" -> "done"

\* What is written to the connection once code has been read: the next
\* command.
WriteNext(w, code) ==
    LET next == NextResponse(code, cfg.username, cfg.password)
    IN IF next = "done" THEN <<>> ELSE <<Written(w, CommandBefore[next], <<>>)>>

\* The kind of error uploadChunk returns when code is not what was read.
FailureKind(code) ==
    IF code \in {"200", "381", "281"} THEN "getclient"
    ELSE IF code = "211" THEN "join" ELSE "post"

\* ReadCodeLine(code): the call returns when the server has sent a line.
\* GetClient appends the client to the pool once Connect and Authenticate
\* have returned nil, and sends QUIT to a client whose Authenticate failed.
ReadCodeLine(w, code) ==
    /\ wpc[w] = code
    /\ cfg.silent # code
    /\ \E ok \in BOOLEAN :
          LET c == wclient[w]
              next == NextResponse(code, cfg.username, cfg.password)
              authFailed == ~ok /\ code \in {"381", "281"}
              inPool == ok /\ next = "211" /\ code # "211"
          IN /\ wire' = [wire EXCEPT ![c] =
                            Append(@, Read(w, code, ok))
                            \o (IF ok THEN WriteNext(w, code)
                                ELSE IF authFailed THEN <<Written(w, "QUIT", <<>>)>>
                                ELSE <<>>)]
             /\ connected' = IF code = "200" /\ ok THEN connected \cup {c}
                             ELSE IF authFailed THEN connected \ {c}
                             ELSE connected
             /\ quitSent' = IF authFailed THEN quitSent \cup {c} ELSE quitSent
             /\ pool' = IF inPool THEN [pool EXCEPT !.clients = Append(@, c)] ELSE pool
             /\ IF ok
                THEN /\ wpc' = [wpc EXCEPT ![w] = next]
                     /\ UNCHANGED errors
                ELSE WorkerFails(w, FailureKind(code))
    /\ UNCHANGED <<nclients, wclient>>
    /\ WaitFrame

WaitNext ==
    \/ Dial(1)
    \/ \E code \in ResponseCodes : ReadCodeLine(1, code)

WaitSpec == WaitInit /\ [][WaitNext]_vars

\* The goroutine of the call is scheduled whenever it can take a step.
WaitLive == WaitSpec /\ WF_vars(WaitNext)

\* -------------------------------------------------------- SplitStepSpec
\* SplitFile pass by pass of its loop, for every maxPartSize a Splitter can
\* be made with: NewSplitter stores the value unchecked. wloc holds the
\* locals partNumber and bytesRead of the call.
SplitStepConfigs ==
    [servers : {<<0>>},
     fileSize : 0..MaxSplitSize,
     maxPartSize : (0 - MaxSplitPart)..MaxSplitPart,
     maxArticleSize : {1}]

SplitStepInit ==
    /\ cfg \in SplitStepConfigs
    /\ pc = "loop"
    /\ YencIdle
    /\ srv = 1
    /\ parts = <<>>
    /\ allSegments = <<>>
    /\ nzb = NoNZB
    /\ pool = NewConnectionPool(0)
    /\ connected = {}
    /\ nclients = 0
    /\ quitSent = {}
    /\ broken = {}
    /\ poolClosed = FALSE
    /\ allJobs = <<>>
    /\ jobs = <<>>
    /\ sent = 0
    /\ jobsClosed = FALSE
    /\ results = <<>>
    /\ errors = <<>>
    /\ collected = 0
    /\ segments = <<>>
    /\ uploadErrors = <<>>
    /\ ret = NoRet
    /\ wpc = [w \in Workers |-> "none"]
    /\ wjob = [w \in Workers |-> 0]
    /\ wclient = [w \in Workers |-> NoClient]
    /\ posted = <<>>
    /\ now = 0
    /\ minted = <<>>
    /\ par2Idx = 0
    /\ par2Segments = <<>>
    /\ sfvSegments = <<>>
    /\ Par2Idle
    /\ art = NoArticle
    /\ xr = NoXor
    /\ wire = <<>>
    /\ wloc = [partNumber |-> 1, bytesRead |-> 0]

SplitStepFrame ==
    /\ UNCHANGED <<cfg, srv, allSegments, nzb, broken, posted, art, xr, wire>>
    /\ UNCHANGED <<poolVars, chanVars, collVars, workVars, yencVars, postVars, extraVars, par2Vars>>

\* One pass of the loop: make([]byte, partSize) panics when partSize is
\* negative; file.Read on an empty buffer returns 0 and nil, so that the
\* pass changes nothing.
SplitPass ==
    /\ pc = "loop"
    /\ wloc.bytesRead < cfg.fileSize
    /\ LET remaining == cfg.fileSize - wloc.bytesRead
           partSize == IF remaining < cfg.maxPartSize THEN remaining
                       ELSE cfg.maxPartSize
       IN IF partSize < 0
          THEN /\ pc' = "panic"
               /\ UNCHANGED <<parts, wloc>>
          ELSE LET n == FileRead(partSize, remaining)
                   part == [PartNumber |-> wloc.partNumber,
                            Size |-> n,
                            Data |-> [k \in 1..n |-> wloc.bytesRead + k]]
               IN /\ parts' = IF n > 0 THEN Append(parts, part) ELSE parts
                  /\ wloc' = IF n > 0
                             THEN [partNumber |-> wloc.partNumber + 1,
                                   bytesRead |-> wloc.bytesRead + n]
                             ELSE wloc
                  /\ UNCHANGED pc
    /\ SplitStepFrame

\* The loop is left and the parts are returned with a nil error.
SplitReturn ==
    /\ pc = "loop"
    /\ wloc.bytesRead >= cfg.fileSize
    /\ pc' = "returned"
    /\ UNCHANGED <<parts, wloc>>
    /\ SplitStepFrame

SplitStepNext ==
    \/ SplitPass
    \/ SplitReturn

SplitStepSpec == SplitStepInit /\ [][SplitStepNext]_vars

\* The call runs on while it can take a step.
SplitStepLive == SplitStepSpec /\ WF_vars(SplitStepNext)

\* ------------------------------------------------------------ SpecLive
\* validateConfig on the configuration of a run. The loop over the servers
\* assigns the default max_connections to its loop variable, a copy, so the
\* configuration is left as it was; posting.max_article_size is not tested.
validateConfig(c) ==
    [err |-> Len(c.servers) = 0 \/ c.maxPartSize <= 0, config |-> c]

\* The goroutines of a run are scheduled whenever one of them can step.
SpecLive == Spec /\ WF_vars(Next)

\* ---------------------------------------------------------------- claims
\* A caller holds the client GetClient gave it until its uploadChunk returns.
Holding(w) == wpc[w] \in {"join", "post"}

\* GetClient returns a client to w in this step.
Acquires(w) == wpc[w] = "get" /\ wpc'[w] = "join"

\* Some job of the running upload has reported an error.
JobFailed == Len(errors) + Len(uploadErrors) > 0

\* C1: no client is held by two callers at the same time.
C1_ExclusiveLease ==
    \A a, b \in Workers :
        (a # b /\ Holding(a) /\ Holding(b)) => wclient[a] # wclient[b]

\* C2: with W >= 1 workers, once a job of an upload has failed uploadParts
\* goes on to its return (it is never left unable to step), and what it
\* returns is the first error observed, never a segment list.
C2_FailureReturnsFirstError ==
    (NumWorkers(cfg) >= 1 /\ JobFailed) =>
        /\ pc = "upload" => ENABLED Next
        /\ pc = "returned" =>
              /\ ret.err
              /\ ret.first = uploadErrors[1]
              /\ ret.segments = <<>>

\* C3: a run in which the upload failed on a server does not end there: it
\* ends with a later server's upload done, or, every server having failed,
\* in the fatal error with no NZB written.
C3_FailoverOrFatal ==
    (~ENABLED Next) =>
        \/ pc = "done"
        \/ pc = "fatal" /\ srv = Len(cfg.servers) + 1 /\ nzb = NoNZB
        \/ pc = "upload" /\ ~JobFailed

\* C4: a successful uploadParts over C planned chunks has posted exactly C
\* articles and returns C segments whose PartNumbers are 1..C, each once,
\* the chunks being numbered part-major then chunk-minor.
C4_SegmentsCoverChunks ==
    (pc = "returned" /\ ~ret.err) =>
        LET C == Len(allJobs)
        IN /\ Len(ret.segments) = C
           /\ \A n \in 1..C :
                 Cardinality({k \in 1..C : ret.segments[k].PartNumber = n}) = 1
           /\ \A n \in 1..C : posted[n] = 1
           /\ \A j \in 1..C : allJobs[j].chunkNumber = j
           /\ \A i, j \in 1..C :
                 i < j => \/ allJobs[i].part < allJobs[j].part
                          \/ /\ allJobs[i].part = allJobs[j].part
                             /\ allJobs[i].chunkIndex < allJobs[j].chunkIndex
           /\ \A k \in 1..C :
                 ret.segments[k].Part = allJobs[ret.segments[k].PartNumber].part

\* C4's case: three chunks over two parts, returned out of order.
C4_Witness ==
    /\ pc = "returned"
    /\ ~ret.err
    /\ Len(allJobs) >= 3
    /\ Len(parts) >= 2
    /\ \E i, j \in 1..Len(ret.segments) :
          i < j /\ ret.segments[i].PartNumber > ret.segments[j].PartNumber

\* C5: the pool never owns more than max_conns clients.
C5_PoolBounded ==
    /\ Len(pool.clients) <= pool.maxConns
    /\ Cardinality(ClientSet(pool) \cap connected) <= pool.maxConns

\* C5's case: a pool at its capacity with a client leased.
C5_Witness ==
    /\ pool.maxConns >= 1
    /\ Len(pool.clients) = pool.maxConns
    /\ \E w \in Workers : Holding(w) /\ wclient[w] \in ClientSet(pool)

\* Every one of the max_conns clients of the pool is leased.
Saturated ==
    /\ pool.maxConns >= 1
    /\ Len(pool.clients) = pool.maxConns
    /\ \A c \in ClientSet(pool) : \E w \in Workers : Holding(w) /\ wclient[w] = c

\* C6: while every client of the pool is leased no GetClient returns a
\* client and no further connection is opened.
C6_SaturatedBlocks ==
    [][Saturated => /\ \A w \in Workers : ~Acquires(w)
                    /\ nclients' = nclients]_vars

\* C7: with max_conns = W >= 2 and at least W chunks, W workers holding jobs
\* at the same time use W distinct connections.
C7_DistinctConnections ==
    LET W == NumWorkers(cfg)
    IN (/\ pc = "upload"
        /\ W >= 2
        /\ pool.maxConns = W
        /\ Len(allJobs) >= W
        /\ \A w \in 1..W : Holding(w)) =>
           Cardinality({wclient[w] : w \in 1..W}) = W

\* C8: a client on which a command has failed is never returned by a later
\* GetClient.
C8_BrokenDiscarded ==
    [][\A w \in Workers : Acquires(w) => wclient'[w] \notin broken]_vars

\* C9: CloseAll leaves every client of the pool sent QUIT and closed, and
\* after it no GetClient returns or creates a client.
C9_ClosedPoolRefuses ==
    [][/\ (~poolClosed /\ poolClosed') =>
              /\ ClientSet(pool) \cap connected' = {}
              /\ ClientSet(pool) \cap connected \subseteq quitSent'
       /\ poolClosed => /\ \A w \in Workers : ~Acquires(w)
                        /\ nclients' = nclients]_vars

\* The text after "crc32=" in the "=yend" line of an article.
TrailerCrc32(encoded) ==
    LET lines == SplitCRLF(encoded)
        b == FindBounds(lines, 0, 0, Len(lines))
        trailer == IF b.end < Len(lines) THEN lines[b.end + 1] ELSE <<>>
        at == {i \in 1..(Len(trailer) - Len(StrCrc32) + 1) :
                  SubSeq(trailer, i, i + Len(StrCrc32) - 1) = StrCrc32}
    IN IF at = {} THEN <<>>
       ELSE LET i == CHOOSE k \in at : \A m \in at : k <= m
            IN SubSeq(trailer, i + Len(StrCrc32), Len(trailer))

\* The eight upper-case hexadecimal digits of a checksum.
UpperHex(crc) ==
    LET hex == HexByte(crc[1]) \o HexByte(crc[2]) \o HexByte(crc[3]) \o HexByte(crc[4])
    IN [k \in 1..Len(hex) |-> ToUpper(hex[k])]

\* C10: Decode(Encode(b, name, 1, 1)) returns b without error, and the crc32
\* field of the trailer is the IEEE CRC32 of b.
C10_RoundTrip ==
    (ypc = "decoded" /\ yin.partNum = 1 /\ yin.totalParts = 1) =>
        /\ ~ydec.err
        /\ ydec.data = yin.data
        /\ TrailerCrc32(yout) = UpperHex(ChecksumIEEE(yin.data))

\* The lines of an article between its "=ybegin" and "=yend" lines.
ContentLines(encoded) ==
    LET lines == SplitCRLF(encoded)
        b == FindBounds(lines, 0, 0, Len(lines))
    IN SubSeq(lines, b.start + 1, b.end)

\* The bytes that may follow '=': the critical bytes plus 64.
EscapeBytes == {64, 73, 74, 77, 125}

\* C11: every content line of an Encode output but the last has exactly
\* lineLength characters, every '=' in a content line is followed on the
\* same line by an escape byte, and no content line holds a raw NUL, TAB,
\* LF or CR.
C11_LineInvariants ==
    (ypc \in {"encoded", "decoded"}) =>
        LET cl == ContentLines(yout)
        IN /\ \A l \in 1..(Len(cl) - 1) : Len(cl[l]) = lineLength
           /\ \A l \in 1..Len(cl) :
                 /\ Len(cl[l]) <= lineLength
                 /\ \A k \in 1..Len(cl[l]) :
                       /\ cl[l][k] \notin {0, 9, 10, 13}
                       /\ cl[l][k] = 61 =>
                             (k < Len(cl[l]) /\ cl[l][k + 1] \in EscapeBytes)

\* C12: the Message-IDs of the articles posted in one run are pairwise
\* distinct.
C12_MessageIDsDistinct ==
    \A i, j \in 1..Len(minted) : i # j => minted[i] # minted[j]

RECURSIVE Concat(_, _)
\* The sequences seqs[k..] joined in order.
Concat(seqs, k) == IF k > Len(seqs) THEN <<>> ELSE seqs[k] \o Concat(seqs, k + 1)

\* The bytes of a file of the given size, named by their offsets.
FileBytes(size) == [k \in 1..size |-> k]

\* C13: SplitFile returns parts numbered 1..n in order whose sizes sum to the
\* file's size; every part but the last has exactly max_part_size bytes, the
\* last has between 1 and max_part_size, and the parts' bytes joined in
\* order are the file.
C13_SplitFileParts ==
    (pc \in {"planning", "planned"}) =>
        LET n == Len(parts)
        IN /\ \A i \in 1..n : parts[i].PartNumber = i
           /\ \A i \in 1..n : parts[i].Size = Len(parts[i].Data)
           /\ Len(Concat([i \in 1..n |-> parts[i].Data], 1)) = cfg.fileSize
           /\ \A i \in 1..(n - 1) : parts[i].Size = cfg.maxPartSize
           /\ n > 0 => (parts[n].Size > 0 /\ parts[n].Size <= cfg.maxPartSize)
           /\ Concat([i \in 1..n |-> parts[i].Data], 1) = FileBytes(cfg.fileSize)

\* The planned chunks of part p, in chunk order.
ChunksOf(p) ==
    LET js == {j \in 1..Len(allJobs) : allJobs[j].part = p}
    IN [c \in 1..Cardinality(js) |->
           allJobs[CHOOSE j \in js : allJobs[j].chunkIndex = c - 1].chunkData]

\* C14: the planned chunks are non-empty, at most max_article_size bytes
\* each, all but the last of a part exactly max_article_size, never padded,
\* and joined in (part, chunk) order they are the parts joined in order.
C14_ChunksCoverParts ==
    (pc = "planned") =>
        /\ \A j \in 1..Len(allJobs) :
              /\ Len(allJobs[j].chunkData) > 0
              /\ Len(allJobs[j].chunkData) <= cfg.maxArticleSize
        /\ \A p \in 1..Len(parts) :
              LET ch == ChunksOf(p)
              IN /\ \A c \in 1..(Len(ch) - 1) : Len(ch[c]) = cfg.maxArticleSize
                 /\ Concat(ch, 1) = parts[p].Data
        /\ Concat([j \in 1..Len(allJobs) |-> allJobs[j].chunkData], 1)
              = Concat([i \in 1..Len(parts) |-> parts[i].Data], 1)

\* C14's case: a part cut into full chunks and a short last one, after
\* another part.
C14_Witness ==
    /\ pc = "planned"
    /\ \E j \in 2..Len(allJobs) :
          /\ allJobs[j].part = 2
          /\ allJobs[j].chunkIndex >= 1
          /\ Len(allJobs[j].chunkData) < cfg.maxArticleSize

RECURSIVE ParseDecimal(_, _)
\* The number whose decimal digits are ds[1..k].
ParseDecimal(ds, k) ==
    IF k = 0 THEN 0 ELSE 10 * ParseDecimal(ds, k - 1) + (ds[k] - 48)

\* The number attribute of a <segment> element.
NumberOf(e) == ParseDecimal(e.number, Len(e.number))

\* C15: within each <file> element of the NZB the <segment> elements are in
\* ascending order of their number attribute.
C15_SegmentsAscending ==
    (pc = "done") =>
        \A f \in 1..Len(nzb) :
            \A i, j \in 1..Len(nzb[f].segments) :
                i < j => NumberOf(nzb[f].segments[i]) < NumberOf(nzb[f].segments[j])

\* The segments the engine recorded for the file of a <file> element.
Recorded(name) ==
    IF name = "main" THEN allSegments
    ELSE IF name = "PAR2" THEN par2Segments
    ELSE sfvSegments

\* C16: the <segment> elements of each file are exactly the segments recorded
\* for it, one for one: the same bytes and number, and the Message-ID
\* without its angle brackets.
C16_SegmentsAsRecorded ==
    (pc = "done") =>
        /\ {nzb[f].name : f \in 1..Len(nzb)}
              = {n \in {"main", "PAR2", "SFV"} : Len(Recorded(n)) > 0}
        /\ \A f, g \in 1..Len(nzb) : f # g => nzb[f].name # nzb[g].name
        /\ \A f \in 1..Len(nzb) :
              LET rec == Recorded(nzb[f].name)
                  es == nzb[f].segments
              IN /\ Len(es) = Len(rec)
                 /\ \A i \in 1..Len(es) :
                       /\ ParseDecimal(es[i].bytes, Len(es[i].bytes)) = rec[i].BytesPosted
                       /\ NumberOf(es[i]) = rec[i].PartNumber
                       /\ <<"<">> \o es[i].id \o <<">">> = rec[i].MessageID
                       /\ \A k \in 1..Len(es[i].id) : es[i].id[k] \notin {"<", ">"}

\* C16's case: an NZB with the main file, a PAR2 file and the SFV file.
C16_Witness ==
    /\ pc = "done"
    /\ Len(nzb) = 3
    /\ \E f \in 1..Len(nzb) : Len(nzb[f].segments) >= 2

\* C17: within every <file> element of the NZB the segment numbers are
\* pairwise distinct and are the range 1..N, and every Message-ID of the NZB
\* occurs once.
C17_DenseNumbersUniqueIDs ==
    (pc = "done") =>
        /\ \A f \in 1..Len(nzb) :
              LET es == nzb[f].segments
              IN /\ \A i, j \in 1..Len(es) :
                       i # j => NumberOf(es[i]) # NumberOf(es[j])
                 /\ {NumberOf(es[i]) : i \in 1..Len(es)} = 1..Len(es)
        /\ \A f, g \in 1..Len(nzb) :
              \A i \in 1..Len(nzb[f].segments) :
              \A j \in 1..Len(nzb[g].segments) :
                  (f # g \/ i # j) => nzb[f].segments[i].id # nzb[g].segments[j].id


\* The size T of all parts of the PAR2 run.
Par2Total == SumSizes(pin.sizes, Len(pin.sizes))

\* The slice size the specification states for a total size, in bytes.
StatedSliceSize(T) ==
    IF T < 1048576 THEN 4096
    ELSE IF T < 104857600 THEN 65536
    ELSE IF T < 1073741824 THEN 262144
    ELSE 524288

\* ceil(a / b) for positive b.
CeilDiv(a, b) == IF a % b = 0 THEN a \div b ELSE a \div b + 1

\* max(1, floor(k * r / 100)).
StatedParity(k, r) ==
    LET f == (k * r) \div 100 IN IF f > 1 THEN f ELSE 1

Volumes == Tail(pout.par2Files)

RECURSIVE BlocksBefore(_, _)
\* The block counts of the volumes before volume i added up.
BlocksBefore(vols, i) ==
    IF i <= 1 THEN 0 ELSE BlocksBefore(vols, i - 1) + vols[i - 1].count

\* The i-th term of 1, 1, 2, 4, 8, ...
StatedBlocks(i) == IF i <= 2 THEN 1 ELSE 2 ^ (i - 2)

C20_ShardsAreSlices ==
    ppc = "created" =>
        LET s == pout.sliceSize
            k == pout.numSlices
        IN /\ Len(pout.shards) = k
           /\ \A i \in 1..Len(pout.shards) :
                 /\ pout.shards[i].lo = (i - 1) * s + 1
                 /\ pout.shards[i].hi = Min(i * s, Par2Total)
                 /\ pout.shards[i].pad = s - (pout.shards[i].hi - pout.shards[i].lo + 1)
                 /\ i < k => pout.shards[i].pad = 0
           /\ pout.shards[k].hi = Par2Total


\* The lines a server receives from PostArticle after the headers: what was
\* written, cut at each CRLF, without the empty piece after the last CRLF.
Received ==
    LET pieces == SplitCRLF(art.sent.rest)
    IN SubSeq(pieces, 1, Len(pieces) - 1)

\* C21: in every article PostArticle transmits, each body line that begins
\* with '.' is sent with one extra leading '.', so that between the blank
\* line after the headers and the terminator no transmitted line is '.'
\* alone; a body that is the single line '.' is sent as '..' and the
\* terminator '.'.
C21_DotStuffing ==
    art.pc = "sent" =>
        LET bodyLines == SplitLF(art.body)
            n == Len(bodyLines)
        IN /\ Len(Received) = n + 2
           /\ Received[1] = <<>>
           /\ Received[n + 2] = <<Dot>>
           /\ \A k \in 1..n :
                 /\ Received[k + 1] # <<Dot>>
                 /\ Received[k + 1] =
                        IF bodyLines[k] # <<>> /\ bodyLines[k][1] = Dot
                        THEN <<Dot>> \o Sprintf(bodyLines[k])
                        ELSE Sprintf(bodyLines[k])
           /\ art.body = <<Dot>> => Received = << <<>>, <<Dot, Dot>>, <<Dot>> >>

\* The body ".", LF, "." sent as two stuffed lines and the terminator.
C21_Witness ==
    /\ art.pc = "sent"
    /\ art.body = <<Dot, 10, Dot>>
    /\ Received = << <<>>, <<Dot, Dot>>, <<Dot, Dot>>, <<Dot>> >>


\* The host of the server an article was posted to, from its Message-ID.
PostedTo(segment) == segment.MessageID[6]

\* C22: once the main-part upload has succeeded on a server, no later
\* configured server is contacted, and the PAR2 files and then the SFV file
\* are uploaded through that same server's pool.
C22_WinnerServesAll ==
    /\ [][Len(allSegments) > 0 => srv' = srv]_vars
    /\ [](Len(allSegments) > 0 =>
            /\ srv \in 1..Len(cfg.servers)
            /\ pool.maxConns = cfg.servers[srv]
            /\ \A k \in 1..Len(allSegments) : PostedTo(allSegments[k]) = Host(srv)
            /\ \A k \in 1..Len(par2Segments) : PostedTo(par2Segments[k]) = Host(srv)
            /\ \A k \in 1..Len(sfvSegments) : PostedTo(sfvSegments[k]) = Host(srv)
            /\ Len(sfvSegments) > 0 => par2Idx = Len(cfg.par2Files))
    /\ []((Len(par2Segments) > 0 \/ Len(sfvSegments) > 0) => Len(allSegments) > 0)

\* The first server failed, the second took the main parts, a PAR2 file and
\* the SFV file.
C22_Witness ==
    /\ srv = 2
    /\ Len(cfg.servers) = 2
    /\ Len(allSegments) > 0
    /\ Len(par2Segments) > 0
    /\ Len(sfvSegments) > 0
    /\ pc = "done"


\* The two slices share no byte of the memory.
Apart(dst, src) ==
    \/ dst[2] = 0
    \/ src[2] = 0
    \/ dst[1] + dst[2] <= src[1]
    \/ src[1] + src[2] <= dst[1]

\* dst after the call is dst[i] XOR src[i] in its first min(len) bytes, and
\* the memory is otherwise as it was.
XoredInPlace(after) ==
    LET minLen == Min(xr.dst[2], xr.src[2])
    IN \A k \in 1..MemLen :
          after[k] = IF k > xr.dst[1] /\ k <= xr.dst[1] + minLen
                     THEN XorByte(xr.mem[k], xr.mem[xr.src[1] + (k - xr.dst[1])])
                     ELSE xr.mem[k]

OwnHeader(job) ==
    buildHeader(EncoderState(job.chunkData), YencName, job.part, job.totalParts)
OwnTrailer(job) == buildTrailer(EncoderState(job.chunkData))

\* C24: for every article posted by uploadParts, under every interleaving
\* of the workers that share the yEnc encoder, the size= field of the
\* =ybegin header, the size= field of the =yend trailer and the crc32=
\* field are the length and the IEEE CRC32 of that article's own chunk.
C24_ArticleFieldsOwn ==
    \A c \in 1..Len(wire) : \A k \in 1..Len(wire[c]) :
        wire[c][k].text # <<>> =>
            /\ wire[c][k].text[1] = OwnHeader(allJobs[wjob[wire[c][k].by]])
            /\ wire[c][k].text[2] = OwnTrailer(allJobs[wjob[wire[c][k].by]])

\* The entries that end a PostArticle call: the response to the article,
\* or a response other than 340 to POST.
EndsPost(e) ==
    /\ e.dir = "read"
    /\ \/ e.item = "240"
       \/ e.item = "340" /\ ~e.ok

\* C26: on every connection the wire sequence POST, 340, headers, blank
\* line, body, '.', 240 of an article is uninterrupted: between the POST of
\* one article and the reading of its final response nothing of any other
\* job is written to that connection.
C26_WireSequenceUninterrupted ==
    \A c \in 1..Len(wire) : \A i \in 1..Len(wire[c]) : \A j \in (i + 1)..Len(wire[c]) :
        (/\ wire[c][i].item = "POST"
         /\ wire[c][j].dir = "write"
         /\ wire[c][j].by # wire[c][i].by)
            => \E k \in (i + 1)..(j - 1) :
                   wire[c][k].by = wire[c][i].by /\ EndsPost(wire[c][k])

\* The items written to and read from the connection of client c, in order.
Items(c) == [k \in 1..Len(wire[c]) |-> wire[c][k].item]

AuthFailedOn(c) ==
    \E k \in 1..Len(wire[c]) : wire[c][k].item \in {"381", "281"} /\ ~wire[c][k].ok

\* C30: Authenticate is a no-op only if username and password are both
\* empty; in every other case it sends AUTHINFO USER, requires 381, sends
\* AUTHINFO PASS, requires 281, and returns an error on any other response;
\* a client whose authentication failed is closed and never enters the pool.
C30_Authenticate ==
    \A c \in 1..Len(wire) :
        /\ (cfg.username = "" /\ cfg.password = "") =>
               \A k \in 1..Len(wire[c]) :
                   wire[c][k].item \notin {"AUTHINFO USER", "AUTHINFO PASS"}
        /\ ~(cfg.username = "" /\ cfg.password = "") =>
               /\ Len(wire[c]) >= 2
               /\ SubSeq(Items(c), 1, 2) = <<"AUTHINFO USER", "381">>
               /\ wire[c][2].ok =>
                      /\ Len(wire[c]) >= 4
                      /\ SubSeq(Items(c), 3, 4) = <<"AUTHINFO PASS", "281">>
               /\ c \in ClientSet(pool) => (wire[c][2].ok /\ wire[c][4].ok)
        /\ AuthFailedOn(c) =>
               /\ c \notin ClientSet(pool)
               /\ c \notin connected
               /\ c \in quitSent

\* A failure of the running upload has been reported on the errors channel.
FailureReported == pc = "upload" /\ Len(errors) + Len(uploadErrors) > 0

\* C25: after the first job failure of an upload, pending work is
\* cancelled: no worker starts a job that had not already been started when
\* the failure was reported.
C25_PendingCancelled ==
    [][FailureReported =>
          \A w \in Workers : ~(wpc[w] = "idle" /\ wpc'[w] = "get")]_vars

\* The workers uploadParts has started.
Started == {w \in Workers : wpc[w] # "none"}

\* C27: the number of workers started by an upload equals max_conns of the
\* server whose pool the upload uses, also when that server is not the
\* first configured server.
C27_WorkersOfChosenServer ==
    pc = "upload" =>
        /\ srv \in 1..Len(cfg.servers)
        /\ pool.maxConns = cfg.servers[srv]
        /\ Cardinality(Started) = cfg.servers[srv]

\* The phases of runPost that follow the uploads, in the order of the code.
AfterUploads == {"closed", "generated", "moved", "done"}

\* C28: in a successful invocation the phases occur strictly in this
\* order: main upload, PAR2 upload, SFV upload, NZB assembly, move of the
\* PAR2 and SFV files, deletion of the temporary part files, and last of
\* all the closing of the pool.
C28_PhaseOrder ==
    Len(allSegments) > 0 =>
        /\ Len(par2Segments) > 0 => pc # "main"
        /\ Len(sfvSegments) > 0 => par2Idx = Len(cfg.par2Files)
        /\ pc \notin AfterUploads \ {"closed"} => nzb = NoNZB
        /\ pc \in AfterUploads \ {"closed"} => nzb[1].name = "main"
        /\ poolClosed => pc = "done"

\* The same order without the place of the closing of the pool.
C28_OrderOfTheRest ==
    Len(allSegments) > 0 =>
        /\ Len(par2Segments) > 0 => pc # "main"
        /\ Len(sfvSegments) > 0 => par2Idx = Len(cfg.par2Files)
        /\ pc \notin AfterUploads \ {"closed"} => nzb = NoNZB
        /\ pc \in AfterUploads \ {"closed"} => nzb[1].name = "main"

\* Segment i has the lowest number among the segments segs of a file.
LowestNumbered(segs, i) ==
    \A j \in 1..Len(segs) : segs[i].PartNumber <= segs[j].PartNumber

\* C29: the subject attribute of each <file> element equals the Subject of
\* that file's lowest-numbered segment, for every order in which the
\* workers delivered the segments.
C29_SubjectOfLowestSegment ==
    pc \in AfterUploads \ {"closed"} =>
        \A f \in 1..Len(nzb) :
            LET segs == Recorded(nzb[f].name)
            IN \E i \in 1..Len(segs) :
                  /\ LowestNumbered(segs, i)
                  /\ nzb[f].subject = segs[i].Subject

\* The subject attribute is the Subject of the segment that arrived first.
C29_SubjectOfFirstArrived ==
    pc \in AfterUploads \ {"closed"} =>
        \A f \in 1..Len(nzb) : nzb[f].subject = Recorded(nzb[f].name)[1].Subject

\* A received line with the dot-stuffing undone, as a reader of the article
\* undoes it.
Unstuffed(line) == IF HasPrefix(line, <<Dot>>) THEN Tail(line) ELSE line

\* C38: apart from dot-stuffing, PostArticle transmits every body line
\* exactly as given: the lines sent between the blank line and the
\* terminator, un-stuffed, equal the lines of the body byte for byte,
\* including lines that contain the character '%'.
C38_BodyLinesVerbatim ==
    art.pc = "sent" =>
        LET bodyLines == SplitLF(art.body)
        IN /\ Len(Received) = Len(bodyLines) + 2
           /\ \A k \in 1..Len(bodyLines) : Unstuffed(Received[k + 1]) = bodyLines[k]

\* The same for the bodies without the character '%'.
C38_VerbatimWithoutPercent ==
    (art.pc = "sent" /\ \A k \in 1..Len(art.body) : art.body[k] # Percent) =>
        LET bodyLines == SplitLF(art.body)
        IN /\ Len(Received) = Len(bodyLines) + 2
           /\ \A k \in 1..Len(bodyLines) : Unstuffed(Received[k + 1]) = bodyLines[k]

\* The order of the standard headers.
StandardOrder ==
    <<"From", "Subject", "Newsgroups", "Message-ID", "Date", "Content-Type">>

\* The names of the header lines written, in the order written.
WrittenNames == [k \in 1..Len(art.sent.headers) |-> art.sent.headers[k][1]]

\* C31: every article's headers are written in the fixed order From,
\* Subject, Newsgroups, Message-ID, Date, Content-Type, followed by the
\* extra headers; an extra header with the name of a standard header
\* replaces its value; the order is the same for every article.
C31_HeaderOrder ==
    art.pc = "sent" =>
        /\ Len(WrittenNames) >= 6
        /\ SubSeq(WrittenNames, 1, 6) = StandardOrder
        /\ \A k \in 7..Len(WrittenNames) :
              WrittenNames[k] \in DOMAIN art.headers \ HeaderNames
        /\ \A k \in 1..Len(WrittenNames) :
              WrittenNames[k] \in DOMAIN art.headers =>
                  art.sent.headers[k][2] = art.headers[WrittenNames[k]]

\* Each header is written once, and an extra header with the name of a
\* standard header replaces its value, whatever the order.
C31_EachOnceAndReplaced ==
    art.pc = "sent" =>
        /\ {WrittenNames[k] : k \in 1..Len(WrittenNames)}
               = HeaderNames \cup DOMAIN art.headers
        /\ Len(WrittenNames) = Cardinality(HeaderNames \cup DOMAIN art.headers)
        /\ \A k \in 1..Len(WrittenNames) :
              art.sent.headers[k][2] =
                  IF WrittenNames[k] \in DOMAIN art.headers
                  THEN "custom" ELSE "standard"

\* The places on the connection of client c where GROUP was written.
GroupCommands(c) ==
    {k \in 1..Len(wire[c]) : wire[c][k].item = "GROUP" /\ wire[c][k].dir = "write"}

\* C32: joining the group is idempotent per connection: once a client is
\* in the group, a further job sends no GROUP command on that connection,
\* so GROUP is sent at most once per connection during an upload.
C32_GroupOncePerConnection ==
    \A c \in 1..Len(wire) : Cardinality(GroupCommands(c)) <= 1

\* A caller is waiting for a response of the server.
Waiting(w) == wpc[w] \in ResponseCodes

\* C33: if the server never answers a command (greeting, AUTHINFO, GROUP,
\* POST or the end of an article), the client stops waiting after a
\* bounded deadline, closes its socket and returns a Timeout error, so
\* that the worker and the upload do not block forever.
C33_NoWaitForever == \A w \in Workers : Waiting(w) ~> ~Waiting(w)

\* With a server that answers every command the call returns.
C33_ReturnsWhenAnswered == (cfg.silent = "none") => <>(wpc[1] = "done")

\* C34: CreatePAR2ForParts fails with an InvalidRedundancy error, without
\* producing a recovery set, whenever redundancy is outside [1, 100] (for
\* example 0, a negative value, or 101).
C34_InvalidRedundancy ==
    (ppc = "created" /\ pin.redundancy \notin 1..100) =>
        /\ pout.err
        /\ pout.par2Files = <<>>
        /\ pout.recoveryData = <<>>

\* C35: SplitFile called with max_part_size <= 0 returns an InvalidSize
\* error; it does not loop forever, fault, or return parts.
C35_InvalidSize ==
    (cfg.maxPartSize <= 0) => <>(pc = "invalidSize" /\ parts = <<>>)

\* For max_part_size > 0 the passes of the loop return the parts that
\* SplitFile is given in SplitSpec.
C35_StepsAgree ==
    (pc = "returned" /\ cfg.maxPartSize > 0) =>
        parts = SplitFile(cfg.fileSize, cfg.maxPartSize)

\* For max_part_size > 0 the call returns.
C35_ReturnsWhenPositive == (cfg.maxPartSize > 0) => <>(pc = "returned")

RECURSIVE SumBytesPosted(_, _)
\* The sum of BytesPosted over the first k segments of segs.
SumBytesPosted(segs, k) ==
    IF k = 0 THEN 0 ELSE segs[k].BytesPosted + SumBytesPosted(segs, k - 1)

RECURSIVE SumPartSizes(_, _)
\* The sum of Size over the first k parts of ps.
SumPartSizes(ps, k) == IF k = 0 THEN 0 ELSE ps[k].Size + SumPartSizes(ps, k - 1)

\* The segments of segs record the raw length of their chunks' payload.
RawLengths(segs) ==
    \A i \in 1..Len(segs) :
        /\ segs[i].PartNumber \in 1..Len(allJobs)
        /\ segs[i].BytesPosted = Len(allJobs[segs[i].PartNumber].chunkData)

\* C36: every segment emitted for a successfully posted chunk records
\* BytesPosted equal to the raw length of that chunk's payload, so that the
\* BytesPosted values of a successful upload sum to the total size of the
\* uploaded parts.
C36_BytesPostedRaw ==
    /\ pc \in {"upload", "returned"} => RawLengths(results) /\ RawLengths(segments)
    /\ (pc = "returned" /\ ~ret.err) =>
           /\ RawLengths(ret.segments)
           /\ SumBytesPosted(ret.segments, Len(ret.segments)) = SumPartSizes(parts, Len(parts))

\* An upload of three bytes in two chunks that succeeded.
C36_Witness ==
    /\ pc = "returned"
    /\ ~ret.err
    /\ Len(ret.segments) = 2
    /\ SumBytesPosted(ret.segments, 2) = 3
    /\ \E i \in 1..2 : ret.segments[i].BytesPosted = 2

\* C37: for every configuration that validateConfig accepts (a servers[]
\* entry whose max_connections is 0 included) and a server that accepts
\* every command, uploadParts terminates: at least one worker runs, and the
\* collector receives a message for every job.
C37_UploadTerminates ==
    ~validateConfig(cfg).err =>
        /\ [](pc = "upload" => Cardinality(Started) >= 1)
        /\ (pc = "upload") ~> (pc = "returned" \/ Len(errors) + Len(uploadErrors) > 0)

\* With at least one connection allowed on every server, an upload on
\* which nothing fails returns.
C37_TerminatesWithWorkers ==
    (\A s \in 1..Len(cfg.servers) : cfg.servers[s] >= 1) =>
        ((pc = "upload") ~> (pc = "returned" \/ Len(errors) + Len(uploadErrors) > 0))

\* The host of the server a <segment> element's article was posted to.
HostOf(e) == e.id[Len(e.id)]

\* An article was posted to a server other than the one of index s.
PostedElsewhere(s) ==
    \E k \in 1..Len(minted) : minted[k][6] # Host(s)

\* C39: every segment written to the NZB was obtained through the pool of
\* the single server that won; segments of articles posted to a server
\* whose upload then failed never appear in the NZB, and the main file's
\* <file> element is built from one complete upload only.
C39_SegmentsOfWinnerOnly ==
    pc \in AfterUploads \ {"closed"} =>
        /\ srv \in 1..Len(cfg.servers)
        /\ \A f \in 1..Len(nzb) : \A i \in 1..Len(nzb[f].segments) :
              HostOf(nzb[f].segments[i]) = Host(srv)
        /\ Len(nzb) >= 1
        /\ nzb[1].name = "main"
        /\ Len(nzb[1].segments) = Len(allJobs)
        /\ {NumberOf(nzb[1].segments[i]) : i \in 1..Len(nzb[1].segments)}
               = 1..Len(allJobs)

\* The second server won after articles had been posted to the first one,
\* and the NZB holds the two segments of the second upload.
C39_Witness ==
    /\ pc \in AfterUploads \ {"closed"}
    /\ srv = 2
    /\ PostedElsewhere(2)
    /\ Len(nzb[1].segments) = 2
    /\ HostOf(nzb[1].segments[1]) = Host(2)

\* C40: when the split yields zero parts (an empty source file), the
\* invocation ends in an orderly fatal error: uploadParts does not fault on
\* an empty parts list, no connection is opened to post anything, and no
\* NZB is written.
C40_EmptyFileOrderly ==
    (cfg.fileSize = 0) =>
        /\ pc # "panic"
        /\ nclients = 0
        /\ nzb = NoNZB

\* With an empty source file no connection is opened and no NZB is written.
C40_NothingPosted ==
    (cfg.fileSize = 0) => (nclients = 0 /\ pc \in {"split", "servers", "panic"})

====
